---------------------------- MODULE Spec2Model ----------------------------
(***************************************************************************)
(* Model of immer's relaxed radix balanced tree (rrbtree<T, MP, B, BL>):   *)
(* the facade of immer/detail/rbts/rrbtree.hpp and the visitors it runs    *)
(* (update, push_tail, slice_right, slice_left, concat), over an explicit  *)
(* heap of reference counted nodes.                                        *)
(***************************************************************************)
EXTENDS Integers, Sequences, FiniteSets, TLC

(***************************************************************************)
(* Template parameters and bounds                                          *)
(***************************************************************************)
B == 2
BL == 1

MaxSize == 4
MaxDone == 3
\* dada() is made to throw at its first, second, ... MaxDada-th call
MaxDada == 14
\* under fault injection b also grows by push_back alone up to MaxGrow elements
MaxGrow == 34

NULL == -1
Garbage == -7
EndShift == BL - B

Pow2(n) == 2 ^ n
Branches(bits) == Pow2(bits)
Shr(x, s) == x \div Pow2(s)
Shl(x, s) == x * Pow2(s)
AndMask(x, bits) == x % Pow2(bits)
AndNotMask(x, bits) == x - (x % Pow2(bits))
\* f, evaluated once and for all its arguments
Eager(f) == f @@ <<>>
EagerSeq(s) == s \o <<>>

Min(a, b) == IF a < b THEN a ELSE b

Regs == {1, 2}
NumRegs == Cardinality(Regs)

(***************************************************************************)
(* Heap of nodes (node.hpp).  A node is a leaf (data), a regular inner     *)
(* node (ch) or a relaxed inner node (ch and the size table); it carries a *)
(* reference count (rc) and the edit token of its owner (ownee).           *)
(***************************************************************************)
EmptyRootId == 0
EmptyTailId == 1

RECURSIVE FreshFrom(_, _)
FreshFrom(h, i) == IF i \in DOMAIN h THEN FreshFrom(h, i + 1) ELSE i
\* where the nodes of a mutating operation start, when the memory says so
g_floor == -3
Fresh(h) == FreshFrom(h, IF g_floor \in DOMAIN h THEN h[g_floor] ELSE 0)

\* the owner of a node no transient has stamped
noone == 0

MkLeaf(data) ==
    [kind |-> "leaf", rc |-> 1, ownee |-> noone, data |-> data, ch |-> <<>>,
     sizes |-> <<>>]
MkInner(ch) ==
    [kind |-> "inner", rc |-> 1, ownee |-> noone, data |-> <<>>, ch |-> ch,
     sizes |-> <<>>]
MkRelaxed(ch, sizes) ==
    [kind |-> "relaxed", rc |-> 1, ownee |-> noone, data |-> <<>>, ch |-> ch,
     sizes |-> sizes]

\* the fault injection of dada.hpp: g_dadaism is kept in the memory h beside
\* the nodes.  dada() throws dada_error at the count-th call after next();
\* from then on h[g_dadaism].saved is the memory as the exception leaves it,
\* while h goes on as the run without the exception would.
g_dadaism == -2
Nodes(h) == Eager([i \in (DOMAIN h) \ {g_dadaism, g_floor} |-> h[i]])
dadaism(count) == [count |-> count, thrown |-> FALSE, saved |-> <<>>]
next(h, count) == (g_dadaism :> dadaism(count)) @@ h
Thrown(h) == g_dadaism \in DOMAIN h /\ h[g_dadaism].thrown
dada(h) ==
    IF g_dadaism \notin DOMAIN h \/ h[g_dadaism].thrown THEN h
    ELSE IF h[g_dadaism].count = 1
    THEN [h EXCEPT ![g_dadaism] = [count |-> 0, thrown |-> TRUE, saved |-> Nodes(h)]]
    ELSE [h EXCEPT ![g_dadaism].count = @ - 1]

\* try { ... r ... } catch (...) { cleanup; throw; } entered with memory h0
Catch(h0, r, cleanup(_)) ==
    IF Thrown(r.h) /\ ~Thrown(h0)
    THEN [r EXCEPT !.h = [@ EXCEPT ![g_dadaism].saved = cleanup(@)]]
    ELSE r

Alloc(h, node) == [h |-> (Fresh(h) :> node) @@ h, n |-> Fresh(h)]
New(h, node) == Alloc(dada(h), node)
Delete(h, id) == Eager([i \in (DOMAIN h) \ {id} |-> h[i]])
NodeInc(h, id) == [h EXCEPT ![id].rc = @ + 1]
NodeDecUnsafe(h, id) == [h EXCEPT ![id].rc = @ - 1]

RECURSIVE IncNodes(_, _)
IncNodes(h, ids) ==
    IF ids = <<>> THEN h ELSE IncNodes(NodeInc(h, Head(ids)), Tail(ids))

IsRelaxed(h, id) == h[id].kind = "relaxed"
LeafAt(h, id, i) == IF i < Len(h[id].data) THEN h[id].data[i + 1] ELSE Garbage

\* copy_inner_n, copy_inner_r_n: the node is allocated, then the children
\* it shares are inc()ed
Inced(r, kept) == [h |-> IncNodes(r.h, kept), n |-> r.n]

RECURSIVE MakePath(_, _, _)
make_path_done(n, r) == [h |-> [r.h EXCEPT ![n.n].ch = <<r.n>>], n |-> n.n]

make_path_in(n, shift, node) ==
    make_path_done(n, Catch(n.h, MakePath(n.h, shift - B, node),
                            LAMBDA s : Delete(s, n.n)))

MakePath(h, shift, node) ==
    IF shift = EndShift THEN [h |-> h, n |-> node]
    ELSE make_path_in(New(h, MkInner(<<>>)), shift, node)

(***************************************************************************)
(* Positions (position.hpp): a node seen at a shift with a size            *)
(***************************************************************************)
Pos(node, shift, size) == [node |-> node, shift |-> shift, size |-> size]

RECURSIVE RelaxedScan(_, _, _)
RelaxedScan(sizes, k, idx) ==
    IF sizes[k + 1] <= idx THEN RelaxedScan(sizes, k + 1, idx) ELSE k

PosCount(h, p) ==
    IF IsRelaxed(h, p.node) THEN Len(h[p.node].sizes)
    ELSE Shr(p.size - 1, p.shift) + 1

PosIndex(h, p, idx) ==
    IF IsRelaxed(h, p.node)
    THEN RelaxedScan(h[p.node].sizes, Shr(idx, p.shift), idx)
    ELSE AndMask(Shr(idx, p.shift), B)

PosSubindex(h, p, idx) ==
    IF IsRelaxed(h, p.node)
    THEN RelaxedScan(h[p.node].sizes, Shr(idx, p.shift), idx)
    ELSE Shr(idx, p.shift)

PosSizeBefore(h, p, k) ==
    IF IsRelaxed(h, p.node)
    THEN (IF k > 0 THEN h[p.node].sizes[k] ELSE 0)
    ELSE Shl(k, p.shift)

PosSizeSbh(h, p, k, before) ==
    IF IsRelaxed(h, p.node)
    THEN h[p.node].sizes[k + 1] - before
    ELSE IF k = Shr(p.size - 1, p.shift) THEN p.size - before
         ELSE Pow2(p.shift)

PosChildSize(h, p, k) == PosSizeSbh(h, p, k, PosSizeBefore(h, p, k))

PosNodeSize(h, p) ==
    IF IsRelaxed(h, p.node)
    THEN h[p.node].sizes[Len(h[p.node].sizes)]
    ELSE p.size

PosChild(h, p, k) ==
    Pos(h[p.node].ch[k + 1], p.shift - B, PosChildSize(h, p, k))

(***************************************************************************)
(* The tree facade (rrbtree.hpp)                                           *)
(***************************************************************************)
Tree(size, shift, root, tail) ==
    [size |-> size, shift |-> shift, root |-> root, tail |-> tail]

EmptyTree == Tree(0, BL, EmptyRootId, EmptyTailId)

tail_offset(h, t) ==
    IF IsRelaxed(h, t.root)
    THEN h[t.root].sizes[Len(h[t.root].sizes)]
    ELSE IF t.size # 0 THEN AndNotMask(t.size - 1, BL)
    ELSE 0

tail_size(h, t) == t.size - tail_offset(h, t)

RECURSIVE find_leaf_regular(_, _, _, _)
find_leaf_regular(h, node, level, idx) ==
    IF level = EndShift THEN node
    ELSE find_leaf_regular(h, h[node].ch[AndMask(Shr(idx, level), B) + 1],
                           level - B, idx)

\* the descent of get() with the scan started one entry further on, where
\* there is one
RECURSIVE get_loop_starts_late(_, _, _, _)
get_loop_starts_late(h, node, level, index) ==
    IF level = EndShift THEN LeafAt(h, node, AndMask(index, BL))
    ELSE IF IsRelaxed(h, node)
    THEN LET sizes == h[node].sizes
             k0 == AndMask(Shr(index, level), B)
             k == RelaxedScan(sizes, IF k0 + 1 < Len(sizes) THEN k0 + 1 ELSE k0,
                              index)
             index2 == IF k > 0 THEN index - sizes[k] ELSE index
         IN  get_loop_starts_late(h, h[node].ch[k + 1], level - B, index2)
    ELSE LeafAt(h, find_leaf_regular(h, node, level, index),
                AndMask(index, BL))

RECURSIVE get_loop(_, _, _, _)
get_loop(h, node, level, index) ==
    IF level = EndShift THEN LeafAt(h, node, AndMask(index, BL))
    ELSE IF IsRelaxed(h, node)
    THEN LET sizes == h[node].sizes
             k == RelaxedScan(sizes, AndMask(Shr(index, level), B), index)
             index2 == IF k > 0 THEN index - sizes[k] ELSE index
         IN  get_loop(h, h[node].ch[k + 1], level - B, index2)
    ELSE LeafAt(h, find_leaf_regular(h, node, level, index),
                AndMask(index, BL))

\* get() that reads the tail at index & mask, as if the body were regular
get_tail_unadjusted(h, t, index) ==
    LET tail_off == tail_offset(h, t)
    IN  IF index >= tail_off
        THEN LeafAt(h, t.tail, AndMask(index, BL))
        ELSE get_loop(h, t.root, t.shift, index)

get(h, t, index) ==
    LET tail_off == tail_offset(h, t)
    IN  IF index >= tail_off
        THEN LeafAt(h, t.tail, AndMask(index - tail_off, BL))
        ELSE get_loop(h, t.root, t.shift, index)

Elems(h, t) == EagerSeq([i \in 1 .. t.size |-> get(h, t, i - 1)])

(***************************************************************************)
(* dec_visitor: release one reference, freeing the node and releasing its  *)
(* children when the last reference goes away                              *)
(***************************************************************************)
LeafCopy(h, id, from, to) ==
    EagerSeq([i \in 1 .. (to - from) |-> LeafAt(h, id, from + i - 1)])

dec_leaf(h, node) ==
    IF h[node].rc = 1 THEN Delete(h, node) ELSE NodeDecUnsafe(h, node)

RECURSIVE dec_inner(_, _, _, _)
RECURSIVE dec_each(_, _, _, _)
dec_each(h, p, k, count) ==
    IF k >= count THEN h
    ELSE LET c == PosChild(h, p, k)
             h1 == IF p.shift = BL THEN dec_leaf(h, c.node)
                   ELSE dec_inner(h, c.node, c.shift, c.size)
         IN  dec_each(h1, p, k + 1, count)

\* a dec_visitor that frees the node and leaves its children as they are
dec_inner_keeps_children(h, node, shift, size) ==
    IF h[node].rc = 1 THEN Delete(h, node) ELSE NodeDecUnsafe(h, node)

dec_inner(h, node, shift, size) ==
    IF h[node].rc = 1
    THEN Delete(dec_each(h, Pos(node, shift, size), 0,
                         PosCount(h, Pos(node, shift, size))), node)
    ELSE NodeDecUnsafe(h, node)

dec_empty_regular(h, node) ==
    IF h[node].rc = 1 THEN Delete(h, node) ELSE NodeDecUnsafe(h, node)

\* rrbtree::dec(), the body of the destructor
tree_dec(h, t) ==
    LET tail_off == tail_offset(h, t)
        h1 == IF tail_off # 0 THEN dec_inner(h, t.root, t.shift, tail_off)
              ELSE dec_empty_regular(h, t.root)
    IN  dec_leaf(h1, t.tail)

\* rrbtree::inc(), the body of the copy constructor
tree_inc(h, t) == NodeInc(NodeInc(h, t.root), t.tail)

(***************************************************************************)
(* push_tail_visitor and rrbtree::push_tail / push_back                    *)
(***************************************************************************)
RECURSIVE push_tail_visit(_, _, _, _)
\* visit_relaxed: the copy of the parent around new_child c, and what the
\* catch block releases when the copy fails
push_tail_relaxed_parent(h, p, tail, ts, idx, children, new_idx, c) ==
    Catch(c.h,
          Inced(New(c.h, MkRelaxed(SubSeq(h[p.node].ch, 1, new_idx) \o <<c.n>>,
                                   SubSeq(h[p.node].sizes, 1, new_idx)
                                      \o <<PosNodeSize(h, p) + ts>>)),
                SubSeq(h[p.node].ch, 1, new_idx)),
          LAMBDA s : IF p.shift > BL
                     THEN dec_inner(NodeInc(s, tail), c.n, p.shift - B,
                                    IF new_idx = idx THEN children + ts ELSE ts)
                     ELSE s)

\* visit_relaxed: sub is what the visit of the last child returned
push_tail_relaxed_last(h, p, tail, ts, idx, children, sub) ==
    IF sub.n # NULL
    THEN push_tail_relaxed_parent(h, p, tail, ts, idx, children, idx, sub)
    ELSE IF idx + 1 < Branches(B)
    THEN push_tail_relaxed_parent(h, p, tail, ts, idx, children, idx + 1,
                                  MakePath(sub.h, p.shift - B, tail))
    ELSE [h |-> sub.h, n |-> NULL]

push_tail_visit_relaxed(h, p, tail, ts, idx, children, new_idx) ==
    IF new_idx >= Branches(B) THEN [h |-> h, n |-> NULL]
    ELSE IF idx = new_idx
    THEN push_tail_relaxed_last(h, p, tail, ts, idx, children,
             push_tail_visit(h, PosChild(h, p, idx), tail, ts))
    ELSE push_tail_relaxed_parent(h, p, tail, ts, idx, children, new_idx,
                                  MakePath(h, p.shift - B, tail))

\* visit_regular: do_copy_inner into new_parent around the new child c
push_tail_regular_parent(h, p, new_idx, new_parent, c) ==
    [h |-> [IncNodes(c.h, SubSeq(h[p.node].ch, 1, new_idx))
               EXCEPT ![new_parent.n].ch = SubSeq(h[p.node].ch, 1, new_idx) \o <<c.n>>],
     n |-> new_parent.n]

push_tail_visit_regular(h, p, tail, ts, idx, new_idx, new_parent) ==
    push_tail_regular_parent(h, p, new_idx, new_parent,
        Catch(new_parent.h,
              IF idx = new_idx
              THEN push_tail_visit(new_parent.h,
                                   Pos(h[p.node].ch[idx + 1], p.shift - B,
                                       p.size - Shl(idx, p.shift)),
                                   tail, ts)
              ELSE MakePath(new_parent.h, p.shift - B, tail),
              LAMBDA s : Delete(s, new_parent.n)))

push_tail_visit(h, p, tail, ts) ==
    IF IsRelaxed(h, p.node)
    THEN push_tail_visit_relaxed(h, p, tail, ts, PosCount(h, p) - 1,
             PosChildSize(h, p, PosCount(h, p) - 1),
             IF PosChildSize(h, p, PosCount(h, p) - 1) = Pow2(p.shift)
                    \/ p.shift = BL
             THEN PosCount(h, p) ELSE PosCount(h, p) - 1)
    ELSE push_tail_visit_regular(h, p, tail, ts, PosIndex(h, p, p.size - 1),
             PosIndex(h, p, p.size + Branches(BL) - 1),
             New(h, MkInner(<<>>)))

\* the pair (shift, root) push_tail returns, with the heap
Rooted(r, shift) == [h |-> r.h, shift |-> shift, n |-> r.n]

\* push_tail: new_root filled with the old root and the path to the tail
push_tail_root_filled(root, shift, new_root, path) ==
    [h |-> [NodeInc(path.h, root) EXCEPT ![new_root.n].ch = <<root, path.n>>],
     shift |-> shift + B, n |-> new_root.n]

\* push_tail: a new root above the old root and the path to the tail
push_tail_new_root(root, shift, tail, new_root) ==
    push_tail_root_filled(root, shift, new_root,
        Catch(new_root.h, MakePath(new_root.h, shift, tail),
              LAMBDA s : Delete(s, new_root.n)))

\* push_tail on a relaxed root: new_root is what push_tail_visitor returned
push_tail_relaxed(root, shift, size, tail, tsize, new_root) ==
    IF new_root.n # NULL THEN Rooted(new_root, shift)
    ELSE push_tail_new_root(root, shift, tail,
             New(new_root.h, MkRelaxed(<<>>, <<size, size + tsize>>)))

push_tail(h, root, shift, size, tail, tsize) ==
    IF IsRelaxed(h, root)
    THEN push_tail_relaxed(root, shift, size, tail, tsize,
             push_tail_visit(h, Pos(root, shift, size), tail, tsize))
    ELSE IF size = Shl(Branches(B), shift)
    THEN push_tail_new_root(root, shift, tail, New(h, MkInner(<<>>)))
    ELSE IF size # 0
    THEN Rooted(push_tail_visit(h, Pos(root, shift, size), tail, tsize), shift)
    ELSE Rooted(MakePath(h, shift, tail), shift)

\* push_back with room left in the tail
push_back_fits(t, new_tail) ==
    [h |-> NodeInc(new_tail.h, t.root),
     t |-> Tree(t.size + 1, t.shift, t.root, new_tail.n)]

\* push_back with a full tail: new_root is what push_tail returned
push_back_root(t, new_root, new_tail) ==
    [h |-> NodeInc(new_root.h, t.tail),
     t |-> Tree(t.size + 1, new_root.shift, new_root.n, new_tail)]

push_back_full(h, t, new_tail) ==
    push_back_root(t,
        Catch(new_tail.h,
              push_tail(new_tail.h, t.root, t.shift, tail_offset(h, t),
                        t.tail, t.size - tail_offset(h, t)),
              LAMBDA s : Delete(s, new_tail.n)),
        new_tail.n)

push_back(h, t, value) ==
    IF tail_size(h, t) < Branches(BL)
    THEN push_back_fits(t, New(h, MkLeaf(LeafCopy(h, t.tail, 0, tail_size(h, t))
                                            \o <<value>>)))
    ELSE push_back_full(h, t, New(h, MkLeaf(<<value>>)))

(***************************************************************************)
(* update_visitor and rrbtree::update / assoc                              *)
(***************************************************************************)
AddFn(k) == [kind |-> "add", v |-> k]
ConstFn(v) == [kind |-> "const", v |-> v]
ApplyFn(fn, x) == IF fn.kind = "const" THEN fn.v ELSE x + fn.v

RECURSIVE update_visit(_, _, _, _)
RECURSIVE update_inner(_, _, _, _, _, _)
\* visit_leaf that moves the element out of the leaf it copied from
update_leaf_moves_source(p, idx, fn, node) ==
    Catch(node.h,
          [h |-> [dada([node.h EXCEPT ![p.node].data[AndMask(idx, BL) + 1] = Garbage])
                     EXCEPT ![node.n].data[AndMask(idx, BL) + 1] = ApplyFn(fn, @)],
           n |-> node.n],
          LAMBDA s : Delete(s, node.n))

\* visit_leaf: fn is applied to the element of the copy node
update_leaf(p, idx, fn, node) ==
    Catch(node.h,
          [h |-> [dada(node.h)
                     EXCEPT ![node.n].data[AndMask(idx, BL) + 1] = ApplyFn(fn, @)],
           n |-> node.n],
          LAMBDA s : Delete(s, node.n))

update_inner_done(h, p, offset, node, c) ==
    LET kept == SubSeq(h[p.node].ch, 1, PosCount(h, p))
    IN  [h |-> [NodeDecUnsafe(IncNodes(c.h, kept), kept[offset + 1])
                   EXCEPT ![node.n].ch = [kept EXCEPT ![offset + 1] = c.n]],
         n |-> node.n]

update_visit(h, p, idx, fn) ==
    IF p.shift = EndShift
    THEN update_leaf(p, idx, fn, New(h, MkLeaf(LeafCopy(h, p.node, 0, p.size))))
    ELSE update_inner(h, p, idx, fn, PosIndex(h, p, idx),
                      New(h, IF IsRelaxed(h, p.node)
                             THEN MkRelaxed(<<>>, h[p.node].sizes)
                             ELSE MkInner(<<>>)))

\* visit_relaxed / visit_regular whose catch block also releases the child
\* of the old node that was to be replaced
update_inner_releases_child(h, p, idx, fn, offset, node) ==
    update_inner_done(h, p, offset, node,
        Catch(node.h,
              update_visit(node.h, PosChild(h, p, offset),
                           idx - PosSizeBefore(h, p, offset), fn),
              LAMBDA s : NodeDecUnsafe(Delete(s, node.n),
                                       h[p.node].ch[offset + 1])))

update_inner(h, p, idx, fn, offset, node) ==
    update_inner_done(h, p, offset, node,
        Catch(node.h,
              update_visit(node.h, PosChild(h, p, offset),
                           idx - PosSizeBefore(h, p, offset), fn),
              LAMBDA s : Delete(s, node.n)))

\* update() that writes an element of the tail in place
update_tail_in_place(h, t, idx, fn) ==
    LET tail_off == tail_offset(h, t)
    IN  IF idx >= tail_off
        THEN [h |-> tree_inc([h EXCEPT ![t.tail].data[AndMask(idx - tail_off, BL) + 1] =
                                 ApplyFn(fn, @)], t),
              t |-> t]
        ELSE LET nr == update_visit(h, Pos(t.root, t.shift, tail_off), idx, fn)
             IN  [h |-> NodeInc(nr.h, t.tail),
                  t |-> Tree(t.size, t.shift, nr.n, t.tail)]

\* update() that copies the tail along with the path in the root
update_copies_tail(h, t, idx, fn) ==
    LET tail_off == tail_offset(h, t)
    IN  IF idx >= tail_off
        THEN LET nt == update_visit(h, Pos(t.tail, EndShift, t.size - tail_off),
                                    idx - tail_off, fn)
             IN  [h |-> NodeInc(nt.h, t.root),
                  t |-> Tree(t.size, t.shift, t.root, nt.n)]
        ELSE LET nr == update_visit(h, Pos(t.root, t.shift, tail_off), idx, fn)
                 nt == New(nr.h, MkLeaf(LeafCopy(h, t.tail, 0, t.size - tail_off)))
             IN  [h |-> nt.h, t |-> Tree(t.size, t.shift, nr.n, nt.n)]

update(h, t, idx, fn) ==
    LET tail_off == tail_offset(h, t)
    IN  IF idx >= tail_off
        THEN LET nt == update_visit(h, Pos(t.tail, EndShift, t.size - tail_off),
                                    idx - tail_off, fn)
             IN  [h |-> NodeInc(nt.h, t.root),
                  t |-> Tree(t.size, t.shift, t.root, nt.n)]
        ELSE LET nr == update_visit(h, Pos(t.root, t.shift, tail_off), idx, fn)
             IN  [h |-> NodeInc(nr.h, t.tail),
                  t |-> Tree(t.size, t.shift, nr.n, t.tail)]

assoc(h, t, idx, value) == update(h, t, idx, ConstFn(value))

(***************************************************************************)
(* slice_right_visitor and rrbtree::take                                   *)
(***************************************************************************)
SliceRes(h, shift, n, ts, tail) ==
    [h |-> h, shift |-> shift, n |-> n, ts |-> ts, tail |-> tail]

RECURSIVE slice_right_visit(_, _, _, _)
\* the result around the node nn that copy_inner_n / copy_inner_r_n made
slice_right_made(nn, shift, subs) ==
    SliceRes(nn.h, shift, nn.n, subs.ts, subs.tail)

\* visit_leaf: the result with the copy nt of the leaf as the new tail
slice_right_leaf(nt, ts) == SliceRes(nt.h, 0, NULL, ts, nt.n)

\* the try block of visit_relaxed / visit_regular: subs is what the visit
\* of the child returned
slice_right_try(h, p, lst, idx, collapse, subs) ==
    IF subs.n # NULL
    THEN slice_right_made(
             Inced(New(subs.h,
                       IF IsRelaxed(h, p.node)
                       THEN MkRelaxed(SubSeq(h[p.node].ch, 1, idx) \o <<subs.n>>,
                                      SubSeq(h[p.node].sizes, 1, idx)
                                         \o <<lst + 1 - subs.ts>>)
                       ELSE MkInner(SubSeq(h[p.node].ch, 1, idx) \o <<subs.n>>)),
                   SubSeq(h[p.node].ch, 1, idx)),
             p.shift, subs)
    ELSE IF idx = 0
    THEN SliceRes(subs.h, p.shift, NULL, subs.ts, subs.tail)
    ELSE IF collapse /\ idx = 1 /\ p.shift > BL
    THEN SliceRes(NodeInc(subs.h, h[p.node].ch[1]), p.shift - B,
                  h[p.node].ch[1], subs.ts, subs.tail)
    ELSE slice_right_made(
             Inced(New(subs.h,
                       IF IsRelaxed(h, p.node)
                       THEN MkRelaxed(SubSeq(h[p.node].ch, 1, idx),
                                      SubSeq(h[p.node].sizes, 1, idx))
                       ELSE MkInner(SubSeq(h[p.node].ch, 1, idx))),
                   SubSeq(h[p.node].ch, 1, idx)),
             p.shift, subs)

\* the catch block: the new child and the new tail are released
slice_right_parent(h, p, lst, idx, collapse, subs) ==
    Catch(subs.h, slice_right_try(h, p, lst, idx, collapse, subs),
          LAMBDA s : dec_leaf(IF subs.n # NULL
                              THEN dec_inner(s, subs.n, p.shift - B,
                                             lst + 1 - subs.ts
                                                - PosSizeBefore(h, p, idx))
                              ELSE s,
                              subs.tail))

slice_right_inner(h, p, lst, idx, collapse) ==
    IF collapse /\ idx = 0
    THEN slice_right_visit(h, PosChild(h, p, idx),
                           lst - PosSizeBefore(h, p, idx), collapse)
    ELSE slice_right_parent(h, p, lst, idx, collapse,
             slice_right_visit(h, PosChild(h, p, idx),
                               lst - PosSizeBefore(h, p, idx), FALSE))

slice_right_visit(h, p, lst, collapse) ==
    IF p.shift = EndShift
    THEN IF AndMask(lst, BL) + 1 = p.size
         THEN SliceRes(NodeInc(h, p.node), 0, NULL, p.size, p.node)
         ELSE slice_right_leaf(New(h, MkLeaf(LeafCopy(h, p.node, 0,
                                                      AndMask(lst, BL) + 1))),
                               AndMask(lst, BL) + 1)
    ELSE slice_right_inner(h, p, lst, PosIndex(h, p, lst), collapse)

\* take() that returns the tree itself when the cut is inside the tail
take_keeps_tail(h, t, new_size) ==
    LET tail_off == tail_offset(h, t)
    IN  IF new_size = 0
        THEN [h |-> tree_inc(h, EmptyTree), t |-> EmptyTree]
        ELSE IF new_size >= t.size
        THEN [h |-> tree_inc(h, t), t |-> t]
        ELSE IF new_size > tail_off
        THEN [h |-> tree_inc(h, t), t |-> t]
        ELSE LET r == slice_right_visit(h, Pos(t.root, t.shift, tail_off),
                                        new_size - 1, TRUE)
             IN  IF r.n # NULL
                 THEN [h |-> r.h, t |-> Tree(new_size, r.shift, r.n, r.tail)]
                 ELSE [h |-> NodeInc(r.h, EmptyRootId),
                       t |-> Tree(new_size, BL, EmptyRootId, r.tail)]

\* take() that gives the empty root the shift the visitor came back with
take_empty_root_keeps_shift(h, t, new_size) ==
    LET tail_off == tail_offset(h, t)
    IN  IF new_size = 0
        THEN [h |-> tree_inc(h, EmptyTree), t |-> EmptyTree]
        ELSE IF new_size >= t.size
        THEN [h |-> tree_inc(h, t), t |-> t]
        ELSE IF new_size > tail_off
        THEN LET nt == New(h, MkLeaf(LeafCopy(h, t.tail, 0, new_size - tail_off)))
             IN  [h |-> NodeInc(nt.h, t.root),
                  t |-> Tree(new_size, t.shift, t.root, nt.n)]
        ELSE LET r == slice_right_visit(h, Pos(t.root, t.shift, tail_off),
                                        new_size - 1, TRUE)
             IN  IF r.n # NULL
                 THEN [h |-> r.h, t |-> Tree(new_size, r.shift, r.n, r.tail)]
                 ELSE [h |-> NodeInc(r.h, EmptyRootId),
                       t |-> Tree(new_size, r.shift, EmptyRootId, r.tail)]

\* take() with the results of its two early returns exchanged
take_swapped_returns(h, t, new_size) ==
    LET tail_off == tail_offset(h, t)
    IN  IF new_size = 0
        THEN [h |-> tree_inc(h, t), t |-> t]
        ELSE IF new_size >= t.size
        THEN [h |-> tree_inc(h, EmptyTree), t |-> EmptyTree]
        ELSE IF new_size > tail_off
        THEN LET nt == New(h, MkLeaf(LeafCopy(h, t.tail, 0, new_size - tail_off)))
             IN  [h |-> NodeInc(nt.h, t.root),
                  t |-> Tree(new_size, t.shift, t.root, nt.n)]
        ELSE LET r == slice_right_visit(h, Pos(t.root, t.shift, tail_off),
                                        new_size - 1, TRUE)
             IN  IF r.n # NULL
                 THEN [h |-> r.h, t |-> Tree(new_size, r.shift, r.n, r.tail)]
                 ELSE [h |-> NodeInc(r.h, EmptyRootId),
                       t |-> Tree(new_size, BL, EmptyRootId, r.tail)]

take(h, t, new_size) ==
    LET tail_off == tail_offset(h, t)
    IN  IF new_size = 0
        THEN [h |-> tree_inc(h, EmptyTree), t |-> EmptyTree]
        ELSE IF new_size >= t.size
        THEN [h |-> tree_inc(h, t), t |-> t]
        ELSE IF new_size > tail_off
        THEN LET nt == New(h, MkLeaf(LeafCopy(h, t.tail, 0, new_size - tail_off)))
             IN  [h |-> NodeInc(nt.h, t.root),
                  t |-> Tree(new_size, t.shift, t.root, nt.n)]
        ELSE LET r == slice_right_visit(h, Pos(t.root, t.shift, tail_off),
                                        new_size - 1, TRUE)
             IN  IF r.n # NULL
                 THEN [h |-> r.h, t |-> Tree(new_size, r.shift, r.n, r.tail)]
                 ELSE [h |-> NodeInc(r.h, EmptyRootId),
                       t |-> Tree(new_size, BL, EmptyRootId, r.tail)]

(***************************************************************************)
(* for_each_chunk_visitor and rrbtree::for_each_chunk: the ranges          *)
(* [data, data + count) handed to fn, in the order of the calls            *)
(***************************************************************************)
RECURSIVE for_each_chunk_visit(_, _)
RECURSIVE for_each_chunk_each(_, _, _, _)
for_each_chunk_each(h, p, k, count) ==
    IF k >= count THEN <<>>
    ELSE for_each_chunk_visit(h, PosChild(h, p, k))
            \o for_each_chunk_each(h, p, k + 1, count)

for_each_chunk_visit(h, p) ==
    IF p.shift = EndShift
    THEN <<LeafCopy(h, p.node, 0, p.size)>>
    ELSE for_each_chunk_each(h, p, 0, PosCount(h, p))

\* for_each_chunk() that hands the tail to fn before the body
for_each_chunk_tail_first(h, t) ==
    <<LeafCopy(h, t.tail, 0, tail_size(h, t))>>
        \o (IF tail_offset(h, t) > 0
            THEN for_each_chunk_visit(h, Pos(t.root, t.shift, tail_offset(h, t)))
            ELSE <<>>)

for_each_chunk(h, t) ==
    (IF tail_offset(h, t) > 0
     THEN for_each_chunk_visit(h, Pos(t.root, t.shift, tail_offset(h, t)))
     ELSE <<>>)
        \o <<LeafCopy(h, t.tail, 0, tail_size(h, t))>>

RECURSIVE Flat(_)
Flat(chunks) == IF chunks = <<>> THEN <<>> ELSE Head(chunks) \o Flat(Tail(chunks))

ChunkSizes(chunks) == EagerSeq([k \in 1 .. Len(chunks) |-> Len(chunks[k])])

(***************************************************************************)
(* slice_left_visitor and rrbtree::drop                                    *)
(***************************************************************************)
RECURSIVE CopySizes(_, _, _, _, _)
CopySizes(h, p, offset, n, init) ==
    IF n = 0 THEN <<>>
    ELSE <<init + PosChildSize(h, p, offset)>>
            \o CopySizes(h, p, offset + 1, n - 1, init + PosChildSize(h, p, offset))

RECURSIVE slice_left_visit(_, _, _, _)
\* newn filled: the child subs kept from idx and the children after it
slice_left_filled(h, p, first, idx, newn, subs) ==
    [h |-> [IncNodes(subs.h, SubSeq(h[p.node].ch, idx + 2, PosCount(h, p)))
               EXCEPT ![newn.n].ch =
                          <<subs.n>> \o SubSeq(h[p.node].ch, idx + 2, PosCount(h, p))],
     shift |-> p.shift, n |-> newn.n]

slice_left_inner(h, p, first, idx, newn) ==
    slice_left_filled(h, p, first, idx, newn,
        Catch(newn.h,
              slice_left_visit(newn.h, PosChild(h, p, idx),
                               first - PosSizeBefore(h, p, idx), FALSE),
              LAMBDA s : Delete(s, newn.n)))

\* a size table that counts child idx with all the elements it had
slice_left_sizes_undropped(h, p, idx, size0) ==
    CopySizes(h, p, idx, PosCount(h, p) - idx, 0)

\* the size table of newn: what is left of child idx, then the children
\* after it
slice_left_sizes(h, p, idx, size0) ==
    <<size0>> \o CopySizes(h, p, idx + 1, PosCount(h, p) - idx - 1, size0)

slice_left_visit(h, p, first, collapse) ==
    IF p.shift = EndShift
    THEN Rooted(New(h, MkLeaf(LeafCopy(h, p.node, AndMask(first, BL), p.size))), 0)
    ELSE IF collapse /\ p.shift > BL /\ PosSubindex(h, p, first) = PosCount(h, p) - 1
    THEN slice_left_visit(h, PosChild(h, p, PosSubindex(h, p, first)),
                          first - PosSizeBefore(h, p, PosSubindex(h, p, first)),
                          collapse)
    ELSE slice_left_inner(h, p, first, PosSubindex(h, p, first),
             New(h, MkRelaxed(<<>>,
                     slice_left_sizes(h, p, PosSubindex(h, p, first),
                         PosSizeSbh(h, p, PosSubindex(h, p, first),
                                    PosSizeBefore(h, p, PosSubindex(h, p, first)))
                            - (first - PosSizeBefore(h, p, PosSubindex(h, p, first)))))))

\* drop() that cuts the tail at elems, not at elems - tail_offset
drop_tail_unadjusted(h, t, elems) ==
    LET tail_off == tail_offset(h, t)
    IN  IF elems = 0
        THEN [h |-> tree_inc(h, t), t |-> t]
        ELSE IF elems >= t.size
        THEN [h |-> tree_inc(h, EmptyTree), t |-> EmptyTree]
        ELSE IF elems = tail_off
        THEN [h |-> NodeInc(NodeInc(h, EmptyRootId), t.tail),
              t |-> Tree(t.size - elems, BL, EmptyRootId, t.tail)]
        ELSE IF elems > tail_off
        THEN LET nt == New(h, MkLeaf(LeafCopy(h, t.tail, elems,
                                              elems + t.size - elems)))
             IN  [h |-> NodeInc(nt.h, EmptyRootId),
                  t |-> Tree(t.size - elems, BL, EmptyRootId, nt.n)]
        ELSE LET r == slice_left_visit(h, Pos(t.root, t.shift, tail_off), elems, TRUE)
             IN  [h |-> NodeInc(r.h, t.tail),
                  t |-> Tree(t.size - elems, r.shift, r.n, t.tail)]

\* drop() that leaves size as it was when it cuts inside the body
drop_keeps_size(h, t, elems) ==
    LET tail_off == tail_offset(h, t)
    IN  IF elems = 0
        THEN [h |-> tree_inc(h, t), t |-> t]
        ELSE IF elems >= t.size
        THEN [h |-> tree_inc(h, EmptyTree), t |-> EmptyTree]
        ELSE IF elems = tail_off
        THEN [h |-> NodeInc(NodeInc(h, EmptyRootId), t.tail),
              t |-> Tree(t.size - elems, BL, EmptyRootId, t.tail)]
        ELSE IF elems > tail_off
        THEN LET nt == New(h, MkLeaf(LeafCopy(h, t.tail, elems - tail_off,
                                              t.size - tail_off)))
             IN  [h |-> NodeInc(nt.h, EmptyRootId),
                  t |-> Tree(t.size - elems, BL, EmptyRootId, nt.n)]
        ELSE LET r == slice_left_visit(h, Pos(t.root, t.shift, tail_off), elems, TRUE)
             IN  [h |-> NodeInc(r.h, t.tail),
                  t |-> Tree(t.size, r.shift, r.n, t.tail)]

\* drop() that keeps the root when it drops exactly the body
drop_keeps_root(h, t, elems) ==
    LET tail_off == tail_offset(h, t)
    IN  IF elems = 0
        THEN [h |-> tree_inc(h, t), t |-> t]
        ELSE IF elems >= t.size
        THEN [h |-> tree_inc(h, EmptyTree), t |-> EmptyTree]
        ELSE IF elems = tail_off
        THEN [h |-> NodeInc(NodeInc(h, t.root), t.tail),
              t |-> Tree(t.size - elems, t.shift, t.root, t.tail)]
        ELSE IF elems > tail_off
        THEN LET nt == New(h, MkLeaf(LeafCopy(h, t.tail, elems - tail_off,
                                              t.size - tail_off)))
             IN  [h |-> NodeInc(nt.h, EmptyRootId),
                  t |-> Tree(t.size - elems, BL, EmptyRootId, nt.n)]
        ELSE LET r == slice_left_visit(h, Pos(t.root, t.shift, tail_off), elems, TRUE)
             IN  [h |-> NodeInc(r.h, t.tail),
                  t |-> Tree(t.size - elems, r.shift, r.n, t.tail)]

drop(h, t, elems) ==
    LET tail_off == tail_offset(h, t)
    IN  IF elems = 0
        THEN [h |-> tree_inc(h, t), t |-> t]
        ELSE IF elems >= t.size
        THEN [h |-> tree_inc(h, EmptyTree), t |-> EmptyTree]
        ELSE IF elems = tail_off
        THEN [h |-> NodeInc(NodeInc(h, EmptyRootId), t.tail),
              t |-> Tree(t.size - elems, BL, EmptyRootId, t.tail)]
        ELSE IF elems > tail_off
        THEN LET nt == New(h, MkLeaf(LeafCopy(h, t.tail, elems - tail_off,
                                              t.size - tail_off)))
             IN  [h |-> NodeInc(nt.h, EmptyRootId),
                  t |-> Tree(t.size - elems, BL, EmptyRootId, nt.n)]
        ELSE LET r == slice_left_visit(h, Pos(t.root, t.shift, tail_off), elems, TRUE)
             IN  [h |-> NodeInc(r.h, t.tail),
                  t |-> Tree(t.size - elems, r.shift, r.n, t.tail)]

(***************************************************************************)
(* concat_rebalance_plan: fill, shuffle                                    *)
(***************************************************************************)
MaxChildren == 2 * Branches(B) + 1

NullPos == [node |-> NULL, shift |-> 0, size |-> 0]

\* children from..to-1 of an inner position, as positions
RECURSIVE SubPositions(_, _, _, _)
SubPositions(h, p, from, to) ==
    IF from >= to THEN <<>>
    ELSE <<PosChild(h, p, from)>> \o SubPositions(h, p, from + 1, to)

each_left_sub(h, p) ==
    IF p.node = NULL THEN <<>> ELSE SubPositions(h, p, 0, PosCount(h, p) - 1)

each_right_sub(h, p) ==
    IF p.node = NULL THEN <<>> ELSE SubPositions(h, p, 1, PosCount(h, p))

\* concat_center_pos::each_sub
each_sub(c) ==
    EagerSeq([i \in 1 .. Len(c.nodes) |->
        IF c.shift = BL THEN Pos(c.nodes[i], EndShift, c.sizes[i])
        ELSE Pos(c.nodes[i], c.shift - B, 0)])

\* count() of a position met by each_sub / each_left_sub / each_right_sub
SubCount(h, p) == IF p.shift = EndShift THEN p.size ELSE PosCount(h, p)
Plan(counts, n, total) == [counts |-> counts, n |-> n, total |-> total]

RECURSIVE SumSeq(_)
SumSeq(s) == IF s = <<>> THEN 0 ELSE Head(s) + SumSeq(Tail(s))

fill(h, sources) ==
    LET cs == EagerSeq([i \in 1 .. Len(sources) |-> SubCount(h, sources[i])])
    IN  Plan(Eager([i \in 0 .. MaxChildren - 1 |->
                       IF i < Len(cs) THEN cs[i + 1] ELSE 0]),
             Len(cs), SumSeq(cs))

RECURSIVE shuffle_skip(_, _, _)
shuffle_skip(counts, i, branches) ==
    IF counts[i] > branches - 1 THEN shuffle_skip(counts, i + 1, branches) ELSE i

\* the do-while redistributing the short node counts[i]
RECURSIVE shuffle_redistribute(_, _, _, _)
shuffle_redistribute(counts, i, remaining, branches) ==
    LET count == Min(remaining + counts[i + 1], branches)
        counts1 == [counts EXCEPT ![i] = count]
        remaining1 == remaining + counts[i + 1] - count
    IN  IF remaining1 > 0
        THEN shuffle_redistribute(counts1, i + 1, remaining1, branches)
        ELSE [counts |-> counts1, i |-> i + 1]

\* a removal that drops the last count and moves none
shuffle_remove_moves_none(counts, i, n) == counts

\* std::move(counts + i + 1, counts + n, counts + i)
shuffle_remove(counts, i, n) ==
    Eager([k \in DOMAIN counts |->
        IF k >= i /\ k < n - 1 THEN counts[k + 1] ELSE counts[k]])

RECURSIVE shuffle_loop(_, _, _, _, _)
shuffle_loop(counts, n, i, optimal, branches) ==
    IF n >= optimal + 2
    THEN LET i1 == shuffle_skip(counts, i, branches)
             r == shuffle_redistribute(counts, i1, counts[i1], branches)
         IN  shuffle_loop(shuffle_remove(r.counts, r.i, n), n - 1, r.i - 1,
                          optimal, branches)
    ELSE [counts |-> counts, n |-> n]

shuffle(plan, shift) ==
    LET bits == IF shift = BL THEN BL ELSE B
        branches == Pow2(bits)
        optimal == Shr(plan.total - 1, bits) + 1
        r == shuffle_loop(plan.counts, plan.n, 0, optimal, branches)
    IN  Plan(r.counts, r.n, plan.total)

(***************************************************************************)
(* concat_merger                                                           *)
(***************************************************************************)
\* The merger: result_ is the nodes (the parents under construction) with
\* their sizes csizes, to the node being filled (to_); to_offset_ and
\* to_size_ are read in the node.  at is what nodes and to were when dada()
\* threw, which is what abort() finds.
merger_made(shift, counts, n, parent) ==
    [h |-> parent.h, shift |-> shift + B, counts |-> counts, curr |-> 0, n |-> n,
     nodes |-> <<parent.n>>, csizes |-> <<0>>, to |-> NULL,
     at |-> [nodes |-> <<>>, to |-> NULL]]

Merger(h, shift, counts, n) ==
    merger_made(shift, counts, n, New(h, MkRelaxed(<<>>, <<>>)))

\* m1 is m0 after a statement that may throw
Frozen(m0, m1) ==
    IF Thrown(m1.h) /\ ~Thrown(m0.h)
    THEN [m1 EXCEPT !.at = [nodes |-> m0.nodes, to |-> m0.to]]
    ELSE m1

add_parent(m, parent) ==
    [m EXCEPT !.h = parent.h,
              !.n = @ - Branches(B),
              !.nodes = Append(@, parent.n),
              !.csizes = Append(@, @[Len(@)])]

add_child_to(m, node, size) ==
    [m EXCEPT !.curr = @ + 1,
              !.csizes[Len(m.nodes)] = @ + size,
              !.h[m.nodes[Len(m.nodes)]].ch = Append(@, node),
              !.h[m.nodes[Len(m.nodes)]].sizes =
                  Append(@, size + (IF @ = <<>> THEN 0 ELSE @[Len(@)]))]

\* add_child() that never starts another parent
add_child_same_parent(m, node, size) == add_child_to(m, node, size)

add_child(m, node, size) ==
    IF Len(m.h[m.nodes[Len(m.nodes)]].ch) = Branches(B)
    THEN add_child_to(Frozen(m, add_parent(m, New(m.h, MkRelaxed(<<>>, <<>>)))),
                      node, size)
    ELSE add_child_to(m, node, size)

with_to(m, node) == [m EXCEPT !.h = node.h, !.to = node.n]
without_to(m) == [m EXCEPT !.to = NULL]
inc_from(m, from) == [m EXCEPT !.h = NodeInc(@, from)]

RECURSIVE merge_leaf_loop(_, _, _)
merge_leaf_more(m, p, from_offset) ==
    IF from_offset # p.size THEN merge_leaf_loop(m, p, from_offset) ELSE m

merge_leaf_next(m, p, from_offset) ==
    merge_leaf_more(IF m.counts[m.curr] = Len(m.h[m.to].data)
                    THEN without_to(add_child(m, m.to, Len(m.h[m.to].data)))
                    ELSE m,
                    p, from_offset)

\* std::uninitialized_copy of to_copy elements, each a chance for dada()
merge_leaf_copied(m, p, from_offset, to_copy) ==
    merge_leaf_next(
        Frozen(m, [m EXCEPT !.h = [dada(@) EXCEPT ![m.to].data =
                       @ \o LeafCopy(m.h, p.node, from_offset,
                                     from_offset + to_copy)]]),
        p, from_offset + to_copy)

merge_leaf_copy(m, p, from_offset) ==
    merge_leaf_copied(m, p, from_offset,
        Min(p.size - from_offset, m.counts[m.curr] - Len(m.h[m.to].data)))

merge_leaf_loop(m, p, from_offset) ==
    merge_leaf_copy(IF m.to = NULL
                    THEN Frozen(m, with_to(m, New(m.h, MkLeaf(<<>>))))
                    ELSE m,
                    p, from_offset)

merge_leaf(m, p) ==
    IF m.to = NULL /\ m.counts[m.curr] = p.size
    THEN inc_from(add_child(m, p.node, p.size), p.node)
    ELSE merge_leaf_loop(m, p, 0)

RECURSIVE merge_inner_loop(_, _, _)
merge_inner_more(m, p, from_offset) ==
    IF from_offset # PosCount(m.h, p) THEN merge_inner_loop(m, p, from_offset)
    ELSE m

merge_inner_next(m, p, from_offset) ==
    merge_inner_more(IF m.counts[m.curr] = Len(m.h[m.to].ch)
                     THEN without_to(add_child(m, m.to,
                              m.h[m.to].sizes[Len(m.h[m.to].sizes)]))
                     ELSE m,
                     p, from_offset)

merge_inner_copied(m, p, from_offset, to_copy) ==
    merge_inner_next(
        [m EXCEPT !.h = IncNodes(
            [@ EXCEPT ![m.to].ch = @ \o SubSeq(m.h[p.node].ch, from_offset + 1,
                                               from_offset + to_copy),
                      ![m.to].sizes = @ \o CopySizes(m.h, p, from_offset, to_copy,
                                          IF @ = <<>> THEN 0 ELSE @[Len(@)])],
            SubSeq(m.h[p.node].ch, from_offset + 1, from_offset + to_copy))],
        p, from_offset + to_copy)

merge_inner_copy(m, p, from_offset) ==
    merge_inner_copied(m, p, from_offset,
        Min(PosCount(m.h, p) - from_offset,
            m.counts[m.curr] - Len(m.h[m.to].ch)))

merge_inner_loop(m, p, from_offset) ==
    merge_inner_copy(IF m.to = NULL
                     THEN Frozen(m, with_to(m, New(m.h, MkRelaxed(<<>>, <<>>))))
                     ELSE m,
                     p, from_offset)

\* merge_inner() that copies the children of every source
merge_inner_copies_all(m, p) == merge_inner_loop(m, p, 0)

merge_inner(m, p) ==
    IF m.to = NULL /\ m.counts[m.curr] = PosCount(m.h, p)
    THEN inc_from(add_child(m, p.node, PosNodeSize(m.h, p)), p.node)
    ELSE merge_inner_loop(m, p, 0)

RECURSIVE merge_each(_, _)
merge_each(m, sources) ==
    IF sources = <<>> THEN m
    ELSE merge_each(IF Head(sources).shift = EndShift
                    THEN merge_leaf(m, Head(sources))
                    ELSE merge_inner(m, Head(sources)),
                    Tail(sources))

Center(h, shift, nodes, sizes) ==
    [h |-> h, shift |-> shift, nodes |-> nodes, sizes |-> sizes]

RECURSIVE dec_each_sub(_, _)
dec_each_sub(h, subs) ==
    IF subs = <<>> THEN h
    ELSE dec_each_sub(IF Head(subs).shift = EndShift
                      THEN dec_leaf(h, Head(subs).node)
                      ELSE dec_inner(h, Head(subs).node, Head(subs).shift,
                                     Head(subs).size),
                      Tail(subs))

\* concat_merger::finish: result_, in the memory h
finish(m, h) == Center(h, m.shift, m.nodes, m.csizes)

\* abort() that releases the parents and forgets to_
abort_forgets_to(s, m) ==
    dec_each_sub(s, each_sub(Center(s, m.shift, m.at.nodes, m.csizes)))

\* concat_merger::abort in the memory s the exception left: to_ and the
\* parents are released
abort(s, m) ==
    dec_each_sub(IF m.at.to = NULL THEN s
                 ELSE IF m.shift - B = BL THEN Delete(s, m.at.to)
                 ELSE dec_inner(s, m.at.to, m.shift - B - B, 0),
                 each_sub(Center(s, m.shift, m.at.nodes, m.csizes)))

\* the try block of merge, m the merger after the visits
merge_try(merger, cpos, m) ==
    Catch(merger.h, finish(m, dec_each_sub(m.h, each_sub(cpos))),
          LAMBDA s : abort(s, m))

merge_visit(merger, cpos, sources) ==
    merge_try(merger, cpos, merge_each(merger, sources))

\* merge() that visits the right node before the centre and the left node
merge_right_first(h, plan, lpos, cpos, rpos) ==
    merge_visit(Merger(h, cpos.shift, plan.counts, plan.n), cpos,
                each_right_sub(h, rpos) \o each_sub(cpos) \o each_left_sub(h, lpos))

merge(h, plan, lpos, cpos, rpos) ==
    merge_visit(Merger(h, cpos.shift, plan.counts, plan.n), cpos,
                each_left_sub(h, lpos) \o each_sub(cpos) \o each_right_sub(h, rpos))

concat_rebalance(h, lpos, cpos, rpos) ==
    Catch(h,
          merge(h,
                shuffle(fill(h, each_left_sub(h, lpos) \o each_sub(cpos)
                                   \o each_right_sub(h, rpos)),
                        cpos.shift),
                lpos, cpos, rpos),
          LAMBDA s : dec_each_sub(s, each_sub(cpos)))

(***************************************************************************)
(* concat_leafs, concat_inners, concat_trees, rrbtree::concat              *)
(***************************************************************************)
last_sub(h, p) == PosChild(h, p, PosCount(h, p) - 1)
first_sub(h, p) == PosChild(h, p, 0)

\* concat_leafs() with the two leaves in the wrong order
concat_leafs_swapped(h, lpos, rpos) ==
    Center(NodeInc(NodeInc(h, lpos.node), rpos.node), BL,
           <<rpos.node, lpos.node>>, <<rpos.size, lpos.size>>)

concat_leafs(h, lpos, rpos) ==
    Center(NodeInc(NodeInc(h, lpos.node), rpos.node), BL,
           <<lpos.node, rpos.node>>, <<lpos.size, rpos.size>>)

\* concat_rebalance on the centre cpos, in the heap it was built in
concat_rebalance_center(lpos, cpos, rpos) == concat_rebalance(cpos.h, lpos, cpos, rpos)

RECURSIVE concat_inners(_, _, _)
concat_inners(h, lpos, rpos) ==
    IF lpos.shift > rpos.shift
    THEN concat_rebalance_center(lpos,
             concat_inners(h, last_sub(h, lpos), rpos), NullPos)
    ELSE IF lpos.shift < rpos.shift
    THEN concat_rebalance_center(NullPos,
             concat_inners(h, lpos, first_sub(h, rpos)), rpos)
    ELSE concat_rebalance_center(lpos,
             IF lpos.shift = BL
             THEN concat_leafs(h, last_sub(h, lpos), first_sub(h, rpos))
             ELSE concat_inners(h, last_sub(h, lpos), first_sub(h, rpos)),
             rpos)

\* concat_center_pos::realize
realize(c) ==
    IF Len(c.nodes) > 1
    THEN Catch(c.h, Rooted(New(c.h, MkRelaxed(c.nodes, c.sizes)), c.shift),
               LAMBDA s : dec_each_sub(s, each_sub(c)))
    ELSE [h |-> c.h, shift |-> c.shift - B, n |-> c.nodes[1]]

\* concat_trees() with the right tree on the left
concat_trees_swapped(h, lroot, lshift, lsize, rroot, rshift, rsize) ==
    realize(concat_inners(h, Pos(rroot, rshift, rsize), Pos(lroot, lshift, lsize)))

concat_trees(h, lroot, lshift, lsize, rroot, rshift, rsize) ==
    realize(concat_inners(h, Pos(lroot, lshift, lsize), Pos(rroot, rshift, rsize)))

\* rrbtree::concat, r tail-only and the tail of l full: new_root is the
\* result of push_tail
concat_tail_full(l, r, new_root) ==
    [h |-> NodeInc(NodeInc(new_root.h, l.tail), r.tail),
     t |-> Tree(l.size + r.size, new_root.shift, new_root.n, r.tail)]

\* rrbtree::concat, r tail-only and its elements fit in the tail of l
concat_tail_fits(l, r, new_tail) ==
    [h |-> NodeInc(new_tail.h, l.root),
     t |-> Tree(l.size + r.size, l.shift, l.root, new_tail.n)]

\* rrbtree::concat, r tail-only and overflowing the tail of l: add_tail is
\* pushed into the root, new_tail holds the rest of r
concat_tail_pushed(l, r, new_tail, new_root) ==
    [h |-> new_root.h,
     t |-> Tree(l.size + r.size, new_root.shift, new_root.n, new_tail)]

concat_tail_rest(h, l, r, tail_offst, remaining, add_tail, new_tail) ==
    concat_tail_pushed(l, r, new_tail.n,
        Catch(new_tail.h,
              push_tail(new_tail.h, l.root, l.shift, tail_offst, add_tail,
                        Branches(BL)),
              LAMBDA s : Delete(s, new_tail.n)))

concat_tail_overflow(h, l, r, tail_offst, remaining, add_tail) ==
    Catch(add_tail.h,
          concat_tail_rest(h, l, r, tail_offst, remaining, add_tail.n,
              New(add_tail.h, MkLeaf(LeafCopy(h, r.tail, remaining, r.size)))),
          LAMBDA s : Delete(s, add_tail.n))

\* rrbtree::concat, both with a body: concated is the result of concat_trees
\* on the root of l with its tail pushed (lroot, lshift) and the root of r
concat_bodies_done(l, r, lroot, lshift, concated) ==
    [h |-> NodeInc(dec_inner(concated.h, lroot, lshift, l.size), r.tail),
     t |-> Tree(l.size + r.size, concated.shift, concated.n, r.tail)]

concat_bodies(h, l, r, with_tail) ==
    concat_bodies_done(l, r, with_tail.n, with_tail.shift,
        Catch(with_tail.h,
              concat_trees(NodeInc(with_tail.h, l.tail), with_tail.n,
                           with_tail.shift, l.size, r.root, r.shift,
                           tail_offset(h, r)),
              LAMBDA s : dec_inner(s, with_tail.n, with_tail.shift, l.size)))

\* concat() that pushes the tail of l as it is when r, tail-only, does not
\* fit in it
concat_nonempty_pushes_short_tail(h, l, r) ==
    IF tail_offset(h, r) = 0
    THEN IF tail_size(h, l) + r.size <= Branches(BL)
              /\ tail_size(h, l) # Branches(BL)
         THEN concat_tail_fits(l, r,
                  New(h, MkLeaf(LeafCopy(h, l.tail, 0, tail_size(h, l))
                                  \o LeafCopy(h, r.tail, 0, r.size))))
         ELSE concat_tail_full(l, r,
                  push_tail(h, l.root, l.shift, tail_offset(h, l), l.tail,
                            tail_size(h, l)))
    ELSE concat_bodies(h, l, r,
             push_tail(h, l.root, l.shift, tail_offset(h, l), l.tail,
                       tail_size(h, l)))

\* rrbtree::concat when neither operand is empty
concat_nonempty(h, l, r) ==
    IF tail_offset(h, r) = 0
    THEN IF tail_size(h, l) = Branches(BL)
         THEN concat_tail_full(l, r,
                  push_tail(h, l.root, l.shift, tail_offset(h, l), l.tail,
                            tail_size(h, l)))
         ELSE IF tail_size(h, l) + r.size <= Branches(BL)
         THEN concat_tail_fits(l, r,
                  New(h, MkLeaf(LeafCopy(h, l.tail, 0, tail_size(h, l))
                                  \o LeafCopy(h, r.tail, 0, r.size))))
         ELSE concat_tail_overflow(h, l, r, tail_offset(h, l),
                  Branches(BL) - tail_size(h, l),
                  New(h, MkLeaf(LeafCopy(h, l.tail, 0, tail_size(h, l))
                                  \o LeafCopy(h, r.tail, 0,
                                              Branches(BL) - tail_size(h, l)))))
    ELSE concat_bodies(h, l, r,
             push_tail(h, l.root, l.shift, tail_offset(h, l), l.tail,
                       tail_size(h, l)))

\* concat() that returns its right operand when the right operand is empty
concat_returns_right(h, l, r) ==
    IF l.size = 0 THEN [h |-> tree_inc(h, r), t |-> r]
    ELSE IF r.size = 0 THEN [h |-> tree_inc(h, r), t |-> r]
    ELSE concat_nonempty(h, l, r)

concat(h, l, r) ==
    IF l.size = 0 THEN [h |-> tree_inc(h, r), t |-> r]
    ELSE IF r.size = 0 THEN [h |-> tree_inc(h, l), t |-> l]
    ELSE concat_nonempty(h, l, r)

(***************************************************************************)
(* Transient layer.  A transient holds a tree value and an edit token e;   *)
(* the mutating visitors write a node in place when can_mutate(e) holds    *)
(* for it, and work on a copy stamped with e when it does not.             *)
(***************************************************************************)
can_mutate(h, n, e) == h[n].rc = 1 /\ h[n].ownee = e

\* make_leaf_e, make_inner_e, make_inner_r_e, copy_*_e: the node carries e
Stamped(node, e) == [node EXCEPT !.ownee = e]

\* pos.visit(dec_visitor{})
dec_pos(h, p) ==
    IF p.shift = EndShift THEN dec_leaf(h, p.node)
    ELSE dec_inner(h, p.node, p.shift, p.size)

\* if (Mutating) pos.visit(dec_visitor{}): the node a copy has replaced
Replaced(r, p, mutating) ==
    IF mutating THEN [r EXCEPT !.h = dec_pos(@, p)] ELSE r

RECURSIVE make_path_e(_, _, _, _)
make_path_e_in(n, e, shift, node) ==
    make_path_done(n, make_path_e(n.h, e, shift - B, node))

make_path_e(h, e, shift, node) ==
    IF shift = EndShift THEN [h |-> h, n |-> node]
    ELSE make_path_e_in(New(h, Stamped(MkInner(<<>>), e)), e, shift, node)

(***************************************************************************)
(* push_tail_mut_visitor and push_back_mut                                 *)
(***************************************************************************)
RECURSIVE push_tail_mut_visit(_, _, _, _, _, _)
\* visit_relaxed: new_child c at new_idx, in the node or in a copy of it
push_tail_mut_relaxed_parent(h, p, e, ts, new_idx, c, mutating, mutate) ==
    IF mutate
    THEN [h |-> [c.h EXCEPT ![p.node].ch = SubSeq(@, 1, new_idx) \o <<c.n>>,
                            ![p.node].sizes = SubSeq(@, 1, new_idx)
                                                 \o <<PosNodeSize(h, p) + ts>>],
          n |-> p.node]
    ELSE Replaced(
             Inced(New(c.h, Stamped(MkRelaxed(SubSeq(h[p.node].ch, 1, new_idx)
                                                 \o <<c.n>>,
                                              SubSeq(h[p.node].sizes, 1, new_idx)
                                                 \o <<PosNodeSize(h, p) + ts>>),
                                    e)),
                   SubSeq(h[p.node].ch, 1, new_idx)),
             p, mutating)

\* visit_relaxed: sub is what the visit of the last child returned
push_tail_mut_relaxed_last(h, p, e, tail, ts, idx, sub, mutating, mutate) ==
    IF sub.n # NULL
    THEN push_tail_mut_relaxed_parent(h, p, e, ts, idx, sub, mutating, mutate)
    ELSE IF idx + 1 < Branches(B)
    THEN push_tail_mut_relaxed_parent(h, p, e, ts, idx + 1,
             make_path_e(sub.h, e, p.shift - B, tail), mutating, mutate)
    ELSE [h |-> sub.h, n |-> NULL]

push_tail_mut_visit_relaxed(h, p, e, tail, ts, idx, new_idx, mutating, mutate) ==
    IF new_idx >= Branches(B) THEN [h |-> h, n |-> NULL]
    ELSE IF idx = new_idx
    THEN push_tail_mut_relaxed_last(h, p, e, tail, ts, idx,
             push_tail_mut_visit(h, PosChild(h, p, idx), e, tail, ts, mutate),
             mutating, mutate)
    ELSE push_tail_mut_relaxed_parent(h, p, e, ts, new_idx,
             make_path_e(h, e, p.shift - B, tail), mutating, mutate)

\* visit_regular: the child c at new_idx, in the node or in new_parent
push_tail_mut_regular_parent(h, p, e, new_idx, c, mutating, mutate) ==
    IF mutate
    THEN [h |-> [c.h EXCEPT ![p.node].ch = SubSeq(@, 1, new_idx) \o <<c.n>>],
          n |-> p.node]
    ELSE Replaced(
             [h |-> [IncNodes(c.h, SubSeq(h[p.node].ch, 1, new_idx))
                        EXCEPT ![c.parent].ch =
                                   SubSeq(h[p.node].ch, 1, new_idx) \o <<c.n>>],
              n |-> c.parent],
             p, mutating)

\* the child visit_regular stores: what the visit of the last child
\* returns or a new path, below new_parent when the node is not mutated
push_tail_mut_regular_child(h, p, e, tail, ts, idx, new_idx, mutate, parent) ==
    [parent |-> parent] @@
    (IF idx = new_idx
     THEN push_tail_mut_visit(h, Pos(h[p.node].ch[idx + 1], p.shift - B,
                                     p.size - Shl(idx, p.shift)),
                              e, tail, ts, mutate)
     ELSE make_path_e(h, e, p.shift - B, tail))

push_tail_mut_new_parent(h, p, e, tail, ts, idx, new_idx, new_parent) ==
    push_tail_mut_regular_child(new_parent.h, p, e, tail, ts, idx, new_idx,
                                FALSE, new_parent.n)

push_tail_mut_visit_regular(h, p, e, tail, ts, idx, new_idx, mutating, mutate) ==
    push_tail_mut_regular_parent(h, p, e, new_idx,
        IF mutate
        THEN push_tail_mut_regular_child(h, p, e, tail, ts, idx, new_idx,
                                         TRUE, NULL)
        ELSE push_tail_mut_new_parent(h, p, e, tail, ts, idx, new_idx,
                                      New(h, Stamped(MkInner(<<>>), e))),
        mutating, mutate)

push_tail_mut_visit(h, p, e, tail, ts, mutating) ==
    IF IsRelaxed(h, p.node)
    THEN push_tail_mut_visit_relaxed(h, p, e, tail, ts, PosCount(h, p) - 1,
             IF PosChildSize(h, p, PosCount(h, p) - 1) = Pow2(p.shift)
                    \/ p.shift = BL
             THEN PosCount(h, p) ELSE PosCount(h, p) - 1,
             mutating, mutating /\ can_mutate(h, p.node, e))
    ELSE push_tail_mut_visit_regular(h, p, e, tail, ts,
             PosIndex(h, p, p.size - 1),
             PosIndex(h, p, p.size + Branches(BL) - 1),
             mutating, mutating /\ can_mutate(h, p.node, e))

\* push_tail_mut: a new root above the old root, which it takes over, and
\* the path to the tail
push_tail_mut_new_root(root, shift, new_root, path) ==
    [h |-> [path.h EXCEPT ![new_root.n].ch = <<root, path.n>>],
     shift |-> shift + B, n |-> new_root.n]

push_tail_mut_full(root, shift, e, tail, new_root) ==
    push_tail_mut_new_root(root, shift, new_root,
                           make_path_e(new_root.h, e, shift, tail))

push_tail_mut_relaxed(root, shift, size, e, tail, tsize, new_root) ==
    IF new_root.n # NULL THEN Rooted(new_root, shift)
    ELSE push_tail_mut_full(root, shift, e, tail,
             New(new_root.h,
                 Stamped(MkRelaxed(<<>>, <<size, size + tsize>>), e)))

push_tail_mut(h, root, shift, size, e, tail, tsize) ==
    IF IsRelaxed(h, root)
    THEN push_tail_mut_relaxed(root, shift, size, e, tail, tsize,
             push_tail_mut_visit(h, Pos(root, shift, size), e, tail, tsize, TRUE))
    ELSE IF size = Shl(Branches(B), shift)
    THEN push_tail_mut_full(root, shift, e, tail,
                            New(h, Stamped(MkInner(<<>>), e)))
    ELSE IF size # 0
    THEN Rooted(push_tail_mut_visit(h, Pos(root, shift, size), e, tail, tsize,
                                    TRUE),
                shift)
    ELSE Rooted(make_path_e(dec_empty_regular(h, root), e, shift, tail), shift)

\* ensure_mutable_tail: the tail, or a copy of its first n elements
ensure_mutable_tail(h, t, e, n) ==
    IF can_mutate(h, t.tail, e) THEN [h |-> h, n |-> t.tail]
    ELSE Replaced(New(h, Stamped(MkLeaf(LeafCopy(h, t.tail, 0, n)), e)),
                  Pos(t.tail, EndShift, n), TRUE)

push_back_mut_fits(t, value, tail) ==
    [h |-> [tail.h EXCEPT ![tail.n].data = Append(@, value)],
     t |-> Tree(t.size + 1, t.shift, t.root, tail.n)]

push_back_mut_full(t, new_tail, new_root) ==
    [h |-> new_root.h,
     t |-> Tree(t.size + 1, new_root.shift, new_root.n, new_tail)]

push_back_mut(h, t, e, value) ==
    IF tail_size(h, t) < Branches(BL)
    THEN push_back_mut_fits(t, value,
                            ensure_mutable_tail(h, t, e, tail_size(h, t)))
    ELSE push_back_mut_full(t, New(h, Stamped(MkLeaf(<<value>>), e)).n,
             push_tail_mut(New(h, Stamped(MkLeaf(<<value>>), e)).h,
                           t.root, t.shift, tail_offset(h, t), e, t.tail,
                           tail_size(h, t)))

(***************************************************************************)
(* get_mut_visitor and update_mut.  The visit returns the node to store at *)
(* *location (n) and the element it refers to: slot at of the leaf.        *)
(***************************************************************************)
RECURSIVE get_mut_visit(_, _, _, _)
\* *location = c.n, the child slot offset of the node or of its copy
get_mut_located(node, offset, c) ==
    [h |-> [c.h EXCEPT ![node].ch[offset + 1] = c.n],
     n |-> node, leaf |-> c.leaf, at |-> c.at]

\* visit_relaxed, visit_regular on a node that cannot be mutated: new_node
\* is the copy (copy_inner_sr_e, copy_inner_e)
get_mut_copied(h, p, idx, e, offset, new_node) ==
    Replaced(get_mut_located(new_node.n, offset,
                 get_mut_visit(new_node.h, PosChild(h, p, offset),
                               idx - PosSizeBefore(h, p, offset), e)),
             p, TRUE)

get_mut_inner(h, p, idx, e, offset) ==
    IF can_mutate(h, p.node, e)
    THEN get_mut_located(p.node, offset,
             get_mut_visit(h, PosChild(h, p, offset),
                           idx - PosSizeBefore(h, p, offset), e))
    ELSE get_mut_copied(h, p, idx, e, offset,
             Inced(New(h, Stamped(IF IsRelaxed(h, p.node)
                                  THEN MkRelaxed(SubSeq(h[p.node].ch, 1, PosCount(h, p)),
                                                 h[p.node].sizes)
                                  ELSE MkInner(SubSeq(h[p.node].ch, 1, PosCount(h, p))),
                                  e)),
                   SubSeq(h[p.node].ch, 1, PosCount(h, p))))

get_mut_leaf(p, idx, node) ==
    [h |-> node.h, n |-> node.n, leaf |-> node.n, at |-> AndMask(idx, BL)]

\* visit_leaf that takes every leaf for its own
get_mut_visit_in_place(h, p, idx, e) ==
    IF p.shift = EndShift
    THEN get_mut_leaf(p, idx, [h |-> h, n |-> p.node])
    ELSE get_mut_inner(h, p, idx, e, PosIndex(h, p, idx))

get_mut_visit(h, p, idx, e) ==
    IF p.shift = EndShift
    THEN IF can_mutate(h, p.node, e)
         THEN get_mut_leaf(p, idx, [h |-> h, n |-> p.node])
         ELSE get_mut_leaf(p, idx,
                  Replaced(New(h, Stamped(MkLeaf(LeafCopy(h, p.node, 0, p.size)), e)),
                           p, TRUE))
    ELSE get_mut_inner(h, p, idx, e, PosIndex(h, p, idx))

\* elem = fn(elem) on the element get_mut returned
update_mut_tail(t, offset, fn, tail) ==
    [h |-> [tail.h EXCEPT ![tail.n].data[offset + 1] = ApplyFn(fn, @)],
     t |-> Tree(t.size, t.shift, t.root, tail.n)]

update_mut_root(t, fn, r) ==
    [h |-> [r.h EXCEPT ![r.leaf].data[r.at + 1] = ApplyFn(fn, @)],
     t |-> Tree(t.size, t.shift, r.n, t.tail)]

update_mut(h, t, e, idx, fn) ==
    IF idx >= tail_offset(h, t)
    THEN update_mut_tail(t, AndMask(idx - tail_offset(h, t), BL), fn,
                         ensure_mutable_tail(h, t, e, tail_size(h, t)))
    ELSE update_mut_root(t, fn,
             get_mut_visit(h, Pos(t.root, t.shift, tail_offset(h, t)), idx, e))

(***************************************************************************)
(* slice_right_mut_visitor and take_mut                                    *)
(***************************************************************************)
\* dec_right_visitor: the node is released; its children from idx on go
\* with it when this was the last reference
dec_right(h, p, idx) ==
    IF h[p.node].rc = 1
    THEN Delete(dec_each(h, p, idx, PosCount(h, p)), p.node)
    ELSE NodeDecUnsafe(h, p.node)

\* if (Mutating) pos.visit(dec_right_visitor{}, idx)
RightReleased(r, p, idx, mutating) ==
    IF mutating THEN [r EXCEPT !.h = dec_right(@, p, idx)] ELSE r

RECURSIVE slice_right_mut_visit(_, _, _, _, _, _)
\* the node keeps its first idx children, followed by kept, in place:
\* the children after idx are released
slice_right_mut_cut(h, p, idx, kept, sizes, subs) ==
    SliceRes([dec_each(subs.h, p, idx + 1, PosCount(h, p))
                 EXCEPT ![p.node].ch = SubSeq(@, 1, idx) \o kept,
                        ![p.node].sizes = sizes],
             p.shift, p.node, subs.ts, subs.tail)

\* copy_inner_r_e / copy_inner_e of the first idx children, followed by kept
slice_right_mut_copy(h, p, e, idx, kept, sizes, subs, mutating) ==
    Replaced(slice_right_made(
                 Inced(New(subs.h,
                           Stamped(IF IsRelaxed(h, p.node)
                                   THEN MkRelaxed(SubSeq(h[p.node].ch, 1, idx) \o kept,
                                                  sizes)
                                   ELSE MkInner(SubSeq(h[p.node].ch, 1, idx) \o kept),
                                   e)),
                       SubSeq(h[p.node].ch, 1, idx)),
                 p.shift, subs),
             p, mutating)

slice_right_mut_kept(h, p, e, idx, kept, sizes, subs, mutating, mutate) ==
    IF mutate THEN slice_right_mut_cut(h, p, idx, kept, sizes, subs)
    ELSE slice_right_mut_copy(h, p, e, idx, kept, sizes, subs, mutating)

\* the try block of visit_relaxed / visit_regular: subs is what the visit
\* of the child returned
slice_right_mut_parent(h, p, lst, e, idx, collapse, mutating, mutate, subs) ==
    IF subs.n # NULL
    THEN slice_right_mut_kept(h, p, e, idx, <<subs.n>>,
             IF IsRelaxed(h, p.node)
             THEN SubSeq(h[p.node].sizes, 1, idx) \o <<lst + 1 - subs.ts>>
             ELSE <<>>,
             subs, mutating, mutate)
    ELSE IF idx = 0
    THEN RightReleased(SliceRes(subs.h, p.shift, NULL, subs.ts, subs.tail),
                       p, 1, mutating)
    ELSE IF collapse /\ idx = 1 /\ p.shift > BL
    THEN RightReleased(SliceRes(subs.h, p.shift - B, h[p.node].ch[1],
                                subs.ts, subs.tail),
                       p, 2, mutating)
    ELSE slice_right_mut_kept(h, p, e, idx, <<>>,
             IF IsRelaxed(h, p.node) THEN SubSeq(h[p.node].sizes, 1, idx)
             ELSE <<>>,
             subs, mutating, mutate)

slice_right_mut_inner(h, p, lst, e, idx, collapse, mutating, mutate) ==
    IF collapse /\ idx = 0
    THEN RightReleased(
             slice_right_mut_visit(h, PosChild(h, p, idx),
                                   lst - PosSizeBefore(h, p, idx), e, collapse,
                                   mutate),
             p, 1, mutating)
    ELSE slice_right_mut_parent(h, p, lst, e, idx, collapse, mutating, mutate,
             slice_right_mut_visit(h, PosChild(h, p, idx),
                                   lst - PosSizeBefore(h, p, idx), e, FALSE,
                                   mutate))

slice_right_mut_leaf(h, p, e, new_tail_size, mutating, mutate) ==
    IF new_tail_size = p.size
    THEN SliceRes(IF mutating THEN h ELSE NodeInc(h, p.node), 0, NULL,
                  new_tail_size, p.node)
    ELSE IF mutate
    THEN SliceRes([h EXCEPT ![p.node].data = SubSeq(@, 1, new_tail_size)],
                  0, NULL, new_tail_size, p.node)
    ELSE Replaced(slice_right_leaf(
                      New(h, Stamped(MkLeaf(LeafCopy(h, p.node, 0, new_tail_size)),
                                     e)),
                      new_tail_size),
                  p, mutating)

slice_right_mut_visit(h, p, lst, e, collapse, mutating) ==
    IF p.shift = EndShift
    THEN slice_right_mut_leaf(h, p, e, AndMask(lst, BL) + 1, mutating,
                              mutating /\ can_mutate(h, p.node, e))
    ELSE slice_right_mut_inner(h, p, lst, e, PosIndex(h, p, lst), collapse,
                               mutating, mutating /\ can_mutate(h, p.node, e))

\* *this = empty
assign_empty(h, t) == [h |-> tree_dec(tree_inc(h, EmptyTree), t), t |-> EmptyTree]

\* take_mut with the cut inside the tail: the tail, or a copy of it stamped
\* with e, keeps newts elements
take_mut_tail(t, new_size, newts, tail) ==
    [h |-> [tail.h EXCEPT ![tail.n].data = SubSeq(@, 1, newts)],
     t |-> Tree(new_size, t.shift, t.root, tail.n)]

\* take_mut with the cut in the root: r is what the visitor returned
take_mut_root(t, new_size, r) ==
    IF r.n # NULL
    THEN [h |-> dec_leaf(r.h, t.tail), t |-> Tree(new_size, r.shift, r.n, r.tail)]
    ELSE [h |-> dec_leaf(NodeInc(r.h, EmptyRootId), t.tail),
          t |-> Tree(new_size, BL, EmptyRootId, r.tail)]

take_mut(h, t, e, new_size) ==
    IF new_size = 0 THEN assign_empty(h, t)
    ELSE IF new_size >= t.size THEN [h |-> h, t |-> t]
    ELSE IF new_size > tail_offset(h, t)
    THEN take_mut_tail(t, new_size, new_size - tail_offset(h, t),
             ensure_mutable_tail(h, t, e, new_size - tail_offset(h, t)))
    ELSE take_mut_root(t, new_size,
             slice_right_mut_visit(h, Pos(t.root, t.shift, tail_offset(h, t)),
                                   new_size - 1, e, TRUE, TRUE))

(***************************************************************************)
(* slice_left_mut_visitor and drop_mut                                     *)
(***************************************************************************)
\* node_t::embed_relaxed: the size table is an object of its own
embed_relaxed == FALSE
\* std::is_nothrow_move_constructible<value_t>
nothrow_move_constructible == TRUE

\* dec_left_visitor: the node is released; its children before idx go with
\* it when this was the last reference
dec_left(h, p, idx) ==
    IF h[p.node].rc = 1
    THEN Delete(dec_each(h, p, 0, idx), p.node)
    ELSE NodeDecUnsafe(h, p.node)

\* if (Mutating) pos.visit(dec_left_visitor{}, idx)
LeftReleased(r, p, idx, mutating) ==
    IF mutating THEN [r EXCEPT !.h = dec_left(@, p, idx)] ELSE r

RECURSIVE slice_left_mut_visit(_, _, _, _, _, _)
\* the node itself becomes newn: the children before idx are released, the
\* child subs and the children after idx stay, under the new size table
slice_left_mut_moved(h, p, idx, sizes, subs) ==
    [h |-> [dec_each(subs.h, p, 0, idx)
               EXCEPT ![p.node].ch =
                          <<subs.n>> \o SubSeq(h[p.node].ch, idx + 2, PosCount(h, p)),
                      ![p.node].sizes = sizes,
                      ![p.node].kind = "relaxed"],
     shift |-> p.shift, n |-> p.node]

\* newn is a new node (make_inner_r_e)
slice_left_mut_made(h, p, first, e, idx, newn, mutating) ==
    Replaced(slice_left_filled(h, p, first, idx, newn,
                 slice_left_mut_visit(newn.h, PosChild(h, p, idx),
                                      first - PosSizeBefore(h, p, idx), e,
                                      FALSE, FALSE)),
             p, mutating)

slice_left_mut_inner(h, p, first, e, idx, sizes, mutating, mutate) ==
    IF mutate
    THEN slice_left_mut_moved(h, p, idx, sizes,
             slice_left_mut_visit(h, PosChild(h, p, idx),
                                  first - PosSizeBefore(h, p, idx), e,
                                  FALSE, TRUE))
    ELSE slice_left_mut_made(h, p, first, e, idx,
                             New(h, Stamped(MkRelaxed(<<>>, sizes), e)),
                             mutating)

slice_left_mut_leaf(h, p, e, idx, mutating, mutate) ==
    IF mutate
    THEN [h |-> [h EXCEPT ![p.node].data = SubSeq(@, idx + 1, p.size)],
          shift |-> 0, n |-> p.node]
    ELSE Replaced(Rooted(New(h, Stamped(MkLeaf(LeafCopy(h, p.node, idx, p.size)),
                                        e)),
                         0),
                  p, mutating)

slice_left_mut_visit(h, p, first, e, collapse, mutating) ==
    IF p.shift = EndShift
    THEN slice_left_mut_leaf(h, p, e, AndMask(first, BL), mutating,
             mutating /\ nothrow_move_constructible /\ can_mutate(h, p.node, e))
    ELSE IF collapse /\ p.shift > BL /\ PosSubindex(h, p, first) = PosCount(h, p) - 1
    THEN LeftReleased(
             slice_left_mut_visit(h, PosChild(h, p, PosSubindex(h, p, first)),
                 first - PosSizeBefore(h, p, PosSubindex(h, p, first)), e,
                 collapse,
                 mutating /\ (IsRelaxed(h, p.node) \/ ~embed_relaxed)
                          /\ can_mutate(h, p.node, e)),
             p, PosSubindex(h, p, first), mutating)
    ELSE slice_left_mut_inner(h, p, first, e, PosSubindex(h, p, first),
             slice_left_sizes(h, p, PosSubindex(h, p, first),
                 PosSizeSbh(h, p, PosSubindex(h, p, first),
                            PosSizeBefore(h, p, PosSubindex(h, p, first)))
                    - (first - PosSizeBefore(h, p, PosSubindex(h, p, first)))),
             mutating,
             mutating /\ (IsRelaxed(h, p.node) \/ ~embed_relaxed)
                      /\ can_mutate(h, p.node, e))

\* the root is released
root_dec(h, t) ==
    IF tail_offset(h, t) # 0
    THEN dec_inner(h, t.root, t.shift, tail_offset(h, t))
    ELSE dec_empty_regular(h, t.root)

\* drop_mut of the whole root: the tail, cut at first, is what is left
drop_mut_tail(h, t, elems, tail) ==
    [h |-> NodeInc(root_dec(tail.h, t), EmptyRootId),
     t |-> Tree(t.size - elems, BL, EmptyRootId, tail.n)]

drop_mut_root(t, elems, r) ==
    [h |-> r.h, t |-> Tree(t.size - elems, r.shift, r.n, t.tail)]

drop_mut(h, t, e, elems) ==
    IF elems = 0 THEN [h |-> h, t |-> t]
    ELSE IF elems >= t.size THEN assign_empty(h, t)
    ELSE IF elems >= tail_offset(h, t)
    THEN drop_mut_tail(h, t, elems,
             IF elems = tail_offset(h, t) THEN [h |-> h, n |-> t.tail]
             ELSE slice_left_mut_visit(h, Pos(t.tail, EndShift, tail_size(h, t)),
                                       elems - tail_offset(h, t), e, TRUE, TRUE))
    ELSE drop_mut_root(t, elems,
             slice_left_mut_visit(h, Pos(t.root, t.shift, tail_offset(h, t)),
                                  elems, e, TRUE, TRUE))

(***************************************************************************)
(* concat_merger_mut.  The merger fills the parents result_.nodes_ (nodes, *)
(* with their sizes csizes) and the node to_; a node e may mutate is       *)
(* adopted and written in place: count is count_, the children the last    *)
(* parent holds so far, to_offset and to_cleanup are to_offset_ and        *)
(* to_cleanup_, candidate is candidate_.  A node written in place keeps    *)
(* what lies behind the slots written so far until its count is set.       *)
(***************************************************************************)
\* can_relax(): the node admits a size table
can_relax == TRUE

\* the slots of s from offset on overwritten with vals
PutSeq(s, offset, vals) ==
    SubSeq(s, 1, offset) \o vals \o SubSeq(s, offset + Len(vals) + 1, Len(s))

\* ensure_mutable_relaxed_e: a regular node gets a size table of its own,
\* which holds nothing yet
ensure_mutable_relaxed_e(h, n) ==
    IF IsRelaxed(h, n) THEN h
    ELSE [dada(h) EXCEPT ![n].kind = "relaxed",
                         ![n].sizes = [i \in 1 .. Len(h[n].ch) |-> Garbage]]

merger_mut_made(ec, shift, counts, n, parent, candidate, candidate_e) ==
    [h |-> parent.h, ec |-> ec, shift |-> shift + B, counts |-> counts,
     curr |-> 0, n |-> n, nodes |-> <<parent.n>>, csizes |-> <<0>>,
     count |-> 0, candidate |-> candidate, candidate_e |-> candidate_e,
     to |-> NULL, to_offset |-> 0, to_cleanup |-> 0]

\* c->ensure_mutable_relaxed_e(e, ec); result_.nodes_[0] = c->inc()
merger_mut_reused(h, c) ==
    [h |-> NodeInc(ensure_mutable_relaxed_e(h, c), c), n |-> c]

concat_merger_mut(h, ec, shift, counts, n, e1, c1, e2, c2) ==
    IF c1 # NULL
    THEN merger_mut_made(ec, shift, counts, n, merger_mut_reused(h, c1), c2, e2)
    ELSE IF c2 # NULL
    THEN merger_mut_made(ec, shift, counts, n, merger_mut_reused(h, c2), NULL, e2)
    ELSE merger_mut_made(ec, shift, counts, n,
                         New(h, Stamped(MkRelaxed(<<>>, <<>>), ec)), NULL, e2)

\* add_child when the last parent is full: the candidate or a new node
\* becomes the parent
add_parent_mut(m, parent) ==
    [m EXCEPT !.h = parent.h,
              !.n = @ - Branches(B),
              !.candidate = NULL,
              !.count = 0,
              !.nodes = Append(@, parent.n),
              !.csizes = Append(@, @[Len(@)])]

add_child_mut_to(m, node, size) ==
    [m EXCEPT !.curr = @ + 1,
              !.count = @ + 1,
              !.csizes[Len(m.nodes)] = @ + size,
              !.h[m.nodes[Len(m.nodes)]].ch = PutSeq(@, m.count, <<node>>),
              !.h[m.nodes[Len(m.nodes)]].sizes =
                  PutSeq(@, m.count,
                         <<size + (IF m.count = 0 THEN 0 ELSE @[m.count])>>)]

add_child_mut(m, node, size) ==
    IF m.count = Branches(B)
    THEN add_child_mut_to(
             add_parent_mut(m,
                 IF m.candidate # NULL
                 THEN merger_mut_reused(m.h, m.candidate)
                 ELSE New(m.h, Stamped(MkRelaxed(<<>>, <<>>), m.ec))),
             node, size)
    ELSE add_child_mut_to(m, node, size)

\* merge_leaf: to_ is complete, destroy_n of what lies behind to_offset_,
\* add_child(to_, to_offset_)
merge_leaf_mut_added(m) ==
    [add_child_mut([m EXCEPT !.h[m.to].data = SubSeq(@, 1, m.to_offset)],
                   m.to, m.to_offset)
        EXCEPT !.to = NULL]

\* if (mutating && !from_adopted && from->dec()) delete_leaf(from)
merge_leaf_mut_done(m, p, mutating, from_adopted) ==
    IF mutating /\ ~from_adopted THEN [m EXCEPT !.h = dec_leaf(@, p.node)] ELSE m

RECURSIVE merge_leaf_mut_loop(_, _, _, _, _, _)
merge_leaf_mut_next(m, p, mutating, from_mutate, from_offset, from_adopted) ==
    IF from_offset # p.size
    THEN merge_leaf_mut_loop(m, p, mutating, from_mutate, from_offset,
                             from_adopted)
    ELSE merge_leaf_mut_done(m, p, mutating, from_adopted)

merge_leaf_mut_copied(m, p, mutating, from_mutate, from_offset, from_adopted) ==
    merge_leaf_mut_next(IF m.counts[m.curr] = m.to_offset
                        THEN merge_leaf_mut_added(m) ELSE m,
                        p, mutating, from_mutate, from_offset, from_adopted)

\* the elements from_offset .. from_offset + to_copy of from go to to_: moved
\* inside the node when from is to_, copied (which may throw) or moved
\* otherwise
merge_leaf_mut_copy(m, p, mutating, from_mutate, from_offset, from_adopted, to_copy) ==
    merge_leaf_mut_copied(
        [m EXCEPT !.h = [(IF p.node # m.to /\ ~from_mutate THEN dada(@) ELSE @)
                            EXCEPT ![m.to].data =
                                PutSeq(@, m.to_offset,
                                       LeafCopy(m.h, p.node, from_offset,
                                                from_offset + to_copy))],
                  !.to_cleanup = @ - (IF p.node = m.to THEN to_copy
                                      ELSE Min(to_copy, @)),
                  !.to_offset = @ + to_copy],
        p, mutating, from_mutate, from_offset + to_copy, from_adopted)

\* to_ = from, adopted with the elements it holds
merge_leaf_mut_adopt(m, p) ==
    [m EXCEPT !.h[p.node].ownee = m.ec,
              !.to = p.node, !.to_cleanup = p.size, !.to_offset = 0]

\* to_ = make_leaf_e(ec_)
merge_leaf_mut_make(m, node) ==
    [m EXCEPT !.h = node.h, !.to = node.n, !.to_cleanup = 0, !.to_offset = 0]

merge_leaf_mut_to(m, p, mutating, from_mutate, from_offset, from_adopted) ==
    merge_leaf_mut_copy(m, p, mutating, from_mutate, from_offset, from_adopted,
        Min(p.size - from_offset, m.counts[m.curr] - m.to_offset))

merge_leaf_mut_loop(m, p, mutating, from_mutate, from_offset, from_adopted) ==
    IF m.to # NULL
    THEN merge_leaf_mut_to(m, p, mutating, from_mutate, from_offset,
                           from_adopted)
    ELSE IF from_mutate
    THEN merge_leaf_mut_to(merge_leaf_mut_adopt(m, p), p, mutating,
                           from_mutate, from_offset, TRUE)
    ELSE merge_leaf_mut_to(
             merge_leaf_mut_make(m, New(m.h, Stamped(MkLeaf(<<>>), m.ec))),
             p, mutating, from_mutate, from_offset, from_adopted)

merge_leaf_mut(m, p, e, mutating) ==
    IF m.to = NULL /\ m.counts[m.curr] = p.size
    THEN IF mutating THEN add_child_mut(m, p.node, p.size)
         ELSE inc_from(add_child_mut(m, p.node, p.size), p.node)
    ELSE merge_leaf_mut_loop(m, p, mutating,
                             mutating /\ can_mutate(m.h, p.node, e), 0, FALSE)

\* node->dec() and, when it was the last reference, delete_inner_any(node):
\* the node goes, its children stay
dec_node(h, node) ==
    IF h[node].rc = 1 THEN Delete(h, node) ELSE NodeDecUnsafe(h, node)

\* merge_inner: to_ is complete, its count is set, add_child(to_, to_size_)
merge_inner_mut_added(m) ==
    [add_child_mut([m EXCEPT !.h[m.to].ch = SubSeq(@, 1, m.to_offset),
                             !.h[m.to].sizes = SubSeq(@, 1, m.to_offset)],
                   m.to, m.h[m.to].sizes[m.to_offset])
        EXCEPT !.to = NULL]

merge_inner_mut_done(m, p, mutating, from_adopted) ==
    IF mutating /\ ~from_adopted THEN [m EXCEPT !.h = dec_node(@, p.node)] ELSE m

RECURSIVE merge_inner_mut_loop(_, _, _, _, _, _, _)
merge_inner_mut_next(m, h0, p, e, mutating, from_offset, from_adopted) ==
    IF from_offset # PosCount(h0, p)
    THEN merge_inner_mut_loop(m, h0, p, e, mutating, from_offset, from_adopted)
    ELSE merge_inner_mut_done(m, p, mutating, from_adopted)

merge_inner_mut_copied(m, h0, p, e, mutating, from_offset, from_adopted) ==
    merge_inner_mut_next(IF m.counts[m.curr] = m.to_offset
                         THEN merge_inner_mut_added(m) ELSE m,
                         h0, p, e, mutating, from_offset, from_adopted)

\* the children from_offset .. from_offset + to_copy of from and their sizes
\* go to to_, unless they are where they belong already; h0 is the memory
\* in which the position p was taken
merge_inner_mut_copy(m, h0, p, e, mutating, from_offset, from_adopted, to_copy) ==
    merge_inner_mut_copied(
        IF p.node # m.to \/ from_offset # m.to_offset
        THEN [m EXCEPT
                 !.h = [(IF mutating THEN @
                         ELSE IncNodes(@, SubSeq(h0[p.node].ch, from_offset + 1,
                                                 from_offset + to_copy)))
                           EXCEPT ![m.to].ch =
                                      PutSeq(@, m.to_offset,
                                             SubSeq(h0[p.node].ch, from_offset + 1,
                                                    from_offset + to_copy)),
                                  ![m.to].sizes =
                                      PutSeq(@, m.to_offset,
                                             CopySizes(h0, p, from_offset, to_copy,
                                                 IF m.to_offset = 0 THEN 0
                                                 ELSE @[m.to_offset]))],
                 !.to_offset = @ + to_copy]
        ELSE [m EXCEPT !.to_offset = @ + to_copy],
        h0, p, e, mutating, from_offset + to_copy, from_adopted)

\* to_ = from->inc(), adopted with the children it holds
merge_inner_mut_adopt(m, p) ==
    [m EXCEPT !.h = NodeInc(ensure_mutable_relaxed_e(
                                [@ EXCEPT ![p.node].ownee = m.ec], p.node),
                            p.node),
              !.to = p.node, !.to_offset = 0]

\* to_ = make_inner_r_e(ec_)
merge_inner_mut_make(m, node) ==
    [m EXCEPT !.h = node.h, !.to = node.n, !.to_offset = 0]

merge_inner_mut_to(m, h0, p, e, mutating, from_offset, from_adopted) ==
    merge_inner_mut_copy(m, h0, p, e, mutating, from_offset, from_adopted,
        Min(PosCount(h0, p) - from_offset, m.counts[m.curr] - m.to_offset))

merge_inner_mut_loop(m, h0, p, e, mutating, from_offset, from_adopted) ==
    IF m.to # NULL
    THEN merge_inner_mut_to(m, h0, p, e, mutating, from_offset, from_adopted)
    ELSE IF mutating /\ can_relax /\ can_mutate(m.h, p.node, e)
    THEN merge_inner_mut_to(merge_inner_mut_adopt(m, p), h0, p, e, mutating,
                            from_offset, TRUE)
    ELSE merge_inner_mut_to(
             merge_inner_mut_make(m, New(m.h, Stamped(MkRelaxed(<<>>, <<>>), m.ec))),
             h0, p, e, mutating, from_offset, from_adopted)

merge_inner_mut(m, p, e, mutating) ==
    IF m.to = NULL /\ m.counts[m.curr] = PosCount(m.h, p)
    THEN IF mutating THEN add_child_mut(m, p.node, PosNodeSize(m.h, p))
         ELSE inc_from(add_child_mut(m, p.node, PosNodeSize(m.h, p)), p.node)
    ELSE merge_inner_mut_loop(m, m.h, p, e, mutating, 0, FALSE)

\* each_left_sub, each_sub, each_right_sub with the visitor of the merger
RECURSIVE merge_each_mut(_, _, _, _)
merge_each_mut(m, sources, e, mutating) ==
    IF sources = <<>> THEN m
    ELSE merge_each_mut(IF Head(sources).shift = EndShift
                        THEN merge_leaf_mut(m, Head(sources), e, mutating)
                        ELSE merge_inner_mut(m, Head(sources), e, mutating),
                        Tail(sources), e, mutating)

\* concat_merger_mut::finish: the count of the last parent is set
finish_mut(m, h) ==
    Center([h EXCEPT ![m.nodes[Len(m.nodes)]].ch = SubSeq(@, 1, m.count),
                     ![m.nodes[Len(m.nodes)]].sizes = SubSeq(@, 1, m.count)],
           m.shift, m.nodes, m.csizes)

\* concat_merger_mut::abort: std::terminate(), the program is over in the
\* memory s the exception left
g_terminated == -4
terminate(s) == (g_terminated :> TRUE) @@ s
Terminated(h) == Thrown(h) /\ g_terminated \in DOMAIN h[g_dadaism].saved

(***************************************************************************)
(* concat_rebalance_plan_mut::merge, concat_rebalance_mut                  *)
(***************************************************************************)
\* if (mut && node && node->dec()) delete_inner_any(node)
merge_mut_released(h, mut, node) ==
    IF mut /\ node # NULL THEN dec_node(h, node) ELSE h

\* the try block of merge: m is the merger after the three visits
merge_mut_try(merger, m, lmut, lnode, rmut, rnode) ==
    Catch(merger.h,
          finish_mut(m, merge_mut_released(merge_mut_released(m.h, lmut, lnode),
                                           rmut, rnode)),
          LAMBDA s : terminate(s))

merge_mut_visit(merger, lsubs, el, lmut2, csubs, ec, rsubs, er, rmut2,
                lmut, lnode, rmut, rnode) ==
    merge_mut_try(merger,
        merge_each_mut(merge_each_mut(merge_each_mut(merger, lsubs, el, lmut2),
                                      csubs, ec, TRUE),
                       rsubs, er, rmut2),
        lmut, lnode, rmut, rnode)

merge_mut_with(h, plan, ec, el, lmut, lmut2, lpos, cpos, er, rmut, rmut2, rpos) ==
    merge_mut_visit(
        concat_merger_mut(h, ec, cpos.shift, plan.counts, plan.n,
                          el, IF lmut2 THEN lpos.node ELSE NULL,
                          er, IF rmut2 THEN rpos.node ELSE NULL),
        each_left_sub(h, lpos), el, lmut2, each_sub(cpos), ec,
        each_right_sub(h, rpos), er, rmut2, lmut, lpos.node, rmut, rpos.node)

merge_mut(h, plan, ec, el, lmut, lpos, cpos, er, rmut, rpos) ==
    merge_mut_with(h, plan, ec, el, lmut,
        lmut /\ lpos.node # NULL /\ can_relax /\ can_mutate(h, lpos.node, el),
        lpos, cpos, er, rmut,
        rmut /\ rpos.node # NULL /\ can_relax /\ can_mutate(h, rpos.node, er),
        rpos)

concat_rebalance_mut(h, ec, el, lmut, lpos, cpos, er, rmut, rpos) ==
    merge_mut(h,
              shuffle(fill(h, each_left_sub(h, lpos) \o each_sub(cpos)
                                 \o each_right_sub(h, rpos)),
                      cpos.shift),
              ec, el, lmut, lpos, cpos, er, rmut, rpos)

(***************************************************************************)
(* concat_leafs_mut, concat_inners_mut, concat_trees_mut                   *)
(***************************************************************************)
\* make_singleton_regular_sub_pos(leaf, count): a tree that is just a tail,
\* seen as a node above the leaf
SingletonPos(leaf, count) ==
    [node |-> NULL, shift |-> BL, size |-> count, leaf |-> leaf]

last_sub_mut(h, p) ==
    IF p.node = NULL THEN Pos(p.leaf, EndShift, p.size) ELSE last_sub(h, p)

inc_unless(h, mut, node) == IF mut THEN h ELSE NodeInc(h, node)

concat_leafs_mut(h, lmut, lpos, tpos, rmut, rpos) ==
    IF tpos.size > 0
    THEN Center(inc_unless(inc_unless(inc_unless(h, lmut, lpos.node),
                                      lmut, tpos.node),
                           rmut, rpos.node),
                BL, <<lpos.node, tpos.node, rpos.node>>,
                <<lpos.size, tpos.size, rpos.size>>)
    ELSE Center(inc_unless(inc_unless(h, lmut, lpos.node), rmut, rpos.node),
                BL, <<lpos.node, rpos.node>>, <<lpos.size, rpos.size>>)

concat_rebalance_mut_center(ec, el, lmut, lpos, cpos, er, rmut, rpos) ==
    concat_rebalance_mut(cpos.h, ec, el, lmut, lpos, cpos, er, rmut, rpos)

RECURSIVE concat_inners_mut(_, _, _, _, _, _, _, _, _)
\* the visit of the last child of lpos and the first child of rpos
concat_both_mut(h, ec, el, lmut2, lpos, tpos, er, rmut2, rpos) ==
    IF lpos.shift = BL
    THEN concat_leafs_mut(h, lmut2, last_sub_mut(h, lpos), tpos, rmut2,
                          first_sub(h, rpos))
    ELSE concat_inners_mut(h, ec, el, lmut2, last_sub_mut(h, lpos), tpos,
                           er, rmut2, first_sub(h, rpos))

concat_inners_mut(h, ec, el, lmut, lpos, tpos, er, rmut, rpos) ==
    IF lpos.shift > rpos.shift
    THEN concat_rebalance_mut_center(ec, el, lmut, lpos,
             concat_inners_mut(h, ec, el,
                 lmut /\ (lpos.node = NULL \/ can_mutate(h, lpos.node, el)),
                 last_sub_mut(h, lpos), tpos, er, rmut, rpos),
             er, rmut, NullPos)
    ELSE IF lpos.shift < rpos.shift
    THEN concat_rebalance_mut_center(ec, el, lmut, NullPos,
             concat_inners_mut(h, ec, el, lmut, lpos, tpos, er,
                 rmut /\ can_mutate(h, rpos.node, er), first_sub(h, rpos)),
             er, rmut, rpos)
    ELSE concat_rebalance_mut_center(ec, el, lmut, lpos,
             concat_both_mut(h, ec, el,
                 lmut /\ (lpos.node = NULL \/ can_mutate(h, lpos.node, el)),
                 lpos, tpos, er, rmut /\ can_mutate(h, rpos.node, er), rpos),
             er, rmut, rpos)

\* concat_center_pos::realize_e
realize_e(c, e) ==
    IF Len(c.nodes) > 1
    THEN Rooted(New(c.h, Stamped(MkRelaxed(c.nodes, c.sizes), e)), c.shift)
    ELSE [h |-> c.h, shift |-> c.shift - B, n |-> c.nodes[1]]

\* concat_trees_mut, the left tree with a root
concat_trees_mut(h, ec, el, lmut, lroot, lshift, lsize, ltail, ltcount, er, rmut, rroot, rshift, rsize) ==
    realize_e(concat_inners_mut(h, ec, el, lmut, Pos(lroot, lshift, lsize),
                                Pos(ltail, EndShift, ltcount), er, rmut,
                                Pos(rroot, rshift, rsize)),
              ec)

\* concat_trees_mut, the left tree just a tail
concat_trees_mut_tail(h, ec, el, lmut, ltail, ltcount, er, rmut, rroot, rshift, rsize) ==
    realize_e(concat_inners_mut(h, ec, el, lmut, SingletonPos(ltail, ltcount),
                                Pos(NULL, EndShift, 0), er, rmut,
                                Pos(rroot, rshift, rsize)),
              ec)

(***************************************************************************)
(* concat_mut: the transient l takes the elements of the persistent r      *)
(* behind its own.  The references l holds to its root and its tail go     *)
(* with the nodes into the result (lmut), r keeps its own (no rmut).       *)
(***************************************************************************)
\* r tail-only and the tail of l full: the tail of l is pushed, the tail of
\* r becomes the tail
concat_mut_tail_full(l, r, new_root) ==
    [h |-> NodeInc(new_root.h, r.tail),
     t |-> Tree(l.size + r.size, new_root.shift, new_root.n, r.tail)]

\* r tail-only and its elements fit in the tail of l, which is tail or a
\* copy of it
concat_mut_tail_fits(h, l, r, tail) ==
    [h |-> [dada(tail.h) EXCEPT ![tail.n].data = @ \o LeafCopy(h, r.tail, 0, r.size)],
     t |-> Tree(l.size + r.size, l.shift, l.root, tail.n)]

concat_mut_tail_pushed(l, r, new_tail, new_root) ==
    [h |-> new_root.h,
     t |-> Tree(l.size + r.size, new_root.shift, new_root.n, new_tail)]

concat_mut_tail_rest(h, l, e, r, tail, new_tail) ==
    concat_mut_tail_pushed(l, r, new_tail.n,
        push_tail_mut(new_tail.h, l.root, l.shift, tail_offset(h, l), e, tail,
                      Branches(BL)))

\* r tail-only and overflowing the tail of l: the tail of l is filled and
\* pushed, new_tail holds the rest of r
concat_mut_tail_overflow(h, l, e, r, remaining, tail) ==
    concat_mut_tail_rest(h, l, e, r, tail.n,
        New([dada(tail.h) EXCEPT ![tail.n].data =
                                     @ \o LeafCopy(h, r.tail, 0, remaining)],
            Stamped(MkLeaf(LeafCopy(h, r.tail, remaining, r.size)), e)))

\* both with a body, or l just a tail: concated is what concat_trees_mut
\* returned
concat_mut_done(l, r, concated) ==
    [h |-> NodeInc(concated.h, r.tail),
     t |-> Tree(l.size + r.size, concated.shift, concated.n, r.tail)]

concat_mut_nonempty(h, l, e, r) ==
    IF tail_offset(h, r) = 0
    THEN IF tail_size(h, l) = Branches(BL)
         THEN concat_mut_tail_full(l, r,
                  push_tail_mut(h, l.root, l.shift, tail_offset(h, l), e, l.tail,
                                tail_size(h, l)))
         ELSE IF tail_size(h, l) + r.size <= Branches(BL)
         THEN concat_mut_tail_fits(h, l, r,
                  ensure_mutable_tail(h, l, e, tail_size(h, l)))
         ELSE concat_mut_tail_overflow(h, l, e, r,
                  Branches(BL) - tail_size(h, l),
                  ensure_mutable_tail(h, l, e, tail_size(h, l)))
    ELSE IF tail_offset(h, l) = 0
    THEN concat_mut_done(l, r,
             concat_trees_mut_tail(dec_empty_regular(h, l.root), e, e, TRUE,
                                   l.tail, tail_size(h, l), noone, FALSE,
                                   r.root, r.shift, tail_offset(h, r)))
    ELSE concat_mut_done(l, r,
             concat_trees_mut(h, e, e, TRUE, l.root, l.shift, tail_offset(h, l),
                              l.tail, tail_size(h, l), noone, FALSE,
                              r.root, r.shift, tail_offset(h, r)))

concat_mut(h, l, e, r) ==
    IF l.size = 0 THEN [h |-> tree_dec(tree_inc(h, r), l), t |-> r]
    ELSE IF r.size = 0 THEN [h |-> h, t |-> l]
    ELSE concat_mut_nonempty(h, l, e, r)

(***************************************************************************)
(* State.  The program keeps two tree values, a (t[1]) and b (t[2]), and   *)
(* runs, for ever:                                                         *)
(*     derive:   b = a.op(..)  with op one of push_back, update, take,     *)
(*               drop                                                      *)
(*     combine:  b = a + b  or  b = b + a                                  *)
(*     probe:    b = b.op(..)  or  b = a + b  or  b = b + a  or  b = b + b *)
(*     done:     a = b, back to derive.                                    *)
(* At derive and probe the program may instead run  b = s.concat(empty)    *)
(* or  b = s.take(n).concat(s.drop(n))  on the value s it would apply op   *)
(* to, at derive  b = a.assoc(i, v)  or  b = empty.concat(a), and at       *)
(* combine  b = (x + y) + z  with x, y, z among a and b, and go to done;   *)
(* and it may run  a = b  from combine and probe as well.                  *)
(* heap is the memory, pc the position of the program, last the last       *)
(* statement executed.  After every statement get() reads a and b at every *)
(* index (got); model holds the reference lists: for b the list operation  *)
(* applied to the reference lists of the operands, for a what a held       *)
(* before the statement.  When b is an operand of the statement that       *)
(* assigns b, get() reads the old value of b after the operation and       *)
(* before that value is destroyed (gotold), next to what it held before    *)
(* the statement (modelold).  For b = (x + y) + z the program also builds   *)
(* x + (y + z), reads it with get() (gotalt) and destroys it.              *)
(* Spec is this program, with the statements  b = a.update(i, f)  for an   *)
(* index past the end and  s.for_each_chunk(fn).  SpecDada adds the        *)
(* statements in which the k-th dada() throws, and trees grown by          *)
(* push_back to MaxGrow elements.  SpecMut is the program of a transient   *)
(* of a, described where it is defined: there t[2] is the tree of the      *)
(* transient, and pc ends at done, at failed (a concat_mut threw), at      *)
(* terminated (std::terminate() was called) or at corrupt (a tree reaches  *)
(* a node that was freed: last.dangling, and what get() reads is what the  *)
(* freed memory holds).  SpecBig is the program of Spec on an a that was    *)
(* first grown by push_back to up to MaxFill elements.  SpecPlan runs      *)
(* concat_rebalance_plan::shuffle alone, statement by statement, on the    *)
(* plan held in plan; in the other specifications plan stays empty.        *)
(***************************************************************************)
VARIABLES heap, t, got, model, gotold, modelold, gotalt, last, pc, plan

vars == <<heap, t, got, model, gotold, modelold, gotalt, last, pc, plan>>

\* The statement b = l.op(arg) or b = l + r (r = 0 when there is one
\* operand), with what the operands were when it ran: their shift and
\* tail_offset, whether the result has the root and the tail of l, and
\* whether the operation failed (threw) instead of returning a tree.
OpRec(op, l, r, arg) ==
    [op |-> op, l |-> l, r |-> r, arg |-> arg,
     lshift |-> 0, loff |-> 0, rshift |-> 0, roff |-> 0,
     lrelaxed |-> FALSE, sameroot |-> FALSE, sametail |-> FALSE,
     failed |-> FALSE, inplace |-> TRUE, stamped |-> TRUE, dangling |-> FALSE]

\* A concat_rebalance_plan under shuffle(shift): counts, n and total are its
\* members, i and remaining the locals of shuffle; counts0 and n0 are what
\* fill() left, was_n is n when the outer loop was last entered, and loops
\* counts the times it was.  The programs on trees have no plan of their
\* own: theirs live inside concat.
PlanRec(counts, n, total, shift) ==
    [counts |-> counts, n |-> n, total |-> total, shift |-> shift,
     i |-> 0, remaining |-> 0, counts0 |-> counts, n0 |-> n, was_n |-> n,
     loops |-> 0]

NoPlan == PlanRec(<<>>, 0, 0, BL)

Init ==
    /\ heap = (EmptyRootId :> [MkInner(<<>>) EXCEPT !.rc = 1 + NumRegs])
              @@ (EmptyTailId :> [MkLeaf(<<>>) EXCEPT !.rc = 1 + NumRegs])
    /\ t = [r \in Regs |-> EmptyTree]
    /\ got = [r \in Regs |-> <<>>]
    /\ model = [r \in Regs |-> <<>>]
    /\ gotold = <<>>
    /\ modelold = <<>>
    /\ gotalt = <<>>
    /\ last = OpRec("init", 0, 0, 0)
    /\ pc = "derive"
    /\ plan = NoPlan

(***************************************************************************)
(* Node addresses carry no meaning: after every statement the heap is      *)
(* renamed so that nodes are numbered in the order a walk from the tree    *)
(* values meets them, followed by the nodes no tree value reaches.         *)
(***************************************************************************)
SeqRange(s) == {s[i] : i \in 1 .. Len(s)}

RECURSIVE Walk(_, _, _, _)
Walk(h, ord, seen, stack) ==
    IF stack = <<>> THEN ord
    ELSE IF Head(stack) \in seen THEN Walk(h, ord, seen, Tail(stack))
    ELSE Walk(h, Append(ord, Head(stack)), seen \cup {Head(stack)},
              h[Head(stack)].ch \o Tail(stack))

RECURSIVE Rest(_, _)
Rest(ord, ids) ==
    IF ids = {} THEN ord
    ELSE LET m == CHOOSE x \in ids : \A y \in ids : x <= y
         IN  Rest(Append(ord, m), ids \ {m})

RECURSIVE Roots(_, _)
Roots(tt, r) ==
    IF r > NumRegs THEN <<>> ELSE <<tt[r].root, tt[r].tail>> \o Roots(tt, r + 1)

Reached(h, tt) ==
    Walk(h, <<EmptyRootId, EmptyTailId>>, {EmptyRootId, EmptyTailId}, Roots(tt, 1))

Order(h, tt) == Rest(Reached(h, tt), (DOMAIN h) \ SeqRange(Reached(h, tt)))

\* the new address of every node: its place in ord, counted from 0
RECURSIVE Renaming(_, _)
Renaming(ord, i) ==
    IF i > Len(ord) THEN <<>> ELSE (ord[i] :> i - 1) @@ Renaming(ord, i + 1)

RenameHeap(h, ord, ren) ==
    Eager([i \in 0 .. Len(ord) - 1 |->
        [h[ord[i + 1]] EXCEPT !.ch = EagerSeq([k \in 1 .. Len(@) |-> ren[@[k]]])]])

RenameTree(tr, ren) == [tr EXCEPT !.root = ren[@], !.tail = ren[@]]

(***************************************************************************)
(* The tree is generic in the element type and never inspects an element.  *)
(* After every statement, once get() has read every tree, the elements in  *)
(* the heap are relabelled so that every slot of every leaf holds a value  *)
(* of its own (two indices then hold the same value only when they are the *)
(* same slot of a shared leaf), and the values recorded in got, model,     *)
(* gotold and modelold are renamed after the place of their first          *)
(* occurrence.                                                             *)
(***************************************************************************)
\* SlotBases(h, 0, <<0>>)[id + 1] is the number of slots of the nodes before id
RECURSIVE SlotBases(_, _, _)
SlotBases(h, id, acc) ==
    IF id \notin DOMAIN h THEN acc
    ELSE SlotBases(h, id + 1, Append(acc, acc[id + 1] + Len(h[id].data)))

Relabel(h) ==
    LET base == SlotBases(h, 0, <<0>>)
    IN  Eager([id \in DOMAIN h |->
            [h[id] EXCEPT !.data = EagerSeq([k \in 1 .. Len(@) |-> base[id + 1] + k - 1])]])

\* a value no slot of the heap holds
FreshValue(h) == SlotBases(h, 0, <<0>>)[Cardinality(DOMAIN h) + 1]

RECURSIVE FirstFrom(_, _, _)
FirstFrom(all, v, i) == IF all[i] = v THEN i ELSE FirstFrom(all, v, i + 1)

\* the place of the first occurrence in all of every value of all
Ranks(all) == Eager([v \in SeqRange(all) |-> FirstFrom(all, v, 1)])

Normal(s, rank) == EagerSeq([i \in 1 .. Len(s) |-> rank[s[i]]])

\* the reference list of a tree value: what it holds before the statement
Before(r) == Elems(heap, t[r])

\* the heap h and the tree values tt with the nodes renamed after ord
CanonRen(h, tt, ord, ren) ==
    [h |-> RenameHeap(h, ord, ren),
     t |-> Eager([r \in Regs |-> RenameTree(tt[r], ren)])]

CanonOrd(h, tt, ord) == CanonRen(h, tt, ord, Renaming(ord, 1))

Canonical(h, tt) == CanonOrd(h, tt, Order(h, tt))

\* the state after a statement: c the heap and the tree values, got1 what
\* get() reads in them, model1 the reference lists, old1 and mold1 what the
\* old value of b held, alt what the second result of the statement held
Ranked(c, got1, model1, old1, mold1, alt, rec, all) ==
    [heap |-> Relabel(c.h), t |-> c.t,
     got |-> Eager([r \in Regs |-> Normal(got1[r], all)]),
     model |-> Eager([r \in Regs |-> Normal(model1[r], all)]),
     gotold |-> Normal(old1, all), modelold |-> Normal(mold1, all),
     gotalt |-> Normal(alt, all), last |-> rec]

Read(c, got1, model1, old1, mold1, alt, rec) ==
    Ranked(c, got1, model1, old1, mold1, alt, rec,
           Ranks(got1[1] \o got1[2] \o model1[1] \o model1[2]
                    \o old1 \o mold1 \o alt))

Observed(c, model1, old1, mold1, alt, rec) ==
    Read(c, Eager([r \in Regs |-> Elems(c.h, c.t[r])]), model1, old1, mold1,
         alt, rec)

(***************************************************************************)
(* b = <result>: res is the heap and the tree value an operation on a      *)
(* and/or b returned.  The old value of b is read (when it was an operand) *)
(* and destroyed, the result is moved into b, and get() reads a and b.     *)
(***************************************************************************)
Assigned(res, newmodel, rec, alt) ==
    Observed(Canonical(tree_dec(res.h, t[2]), [t EXCEPT ![2] = res.t]),
             Eager([r \in Regs |-> IF r = 2 THEN newmodel ELSE Before(r)]),
             IF rec.l = 2 \/ rec.r = 2 THEN Elems(res.h, t[2]) ELSE <<>>,
             IF rec.l = 2 \/ rec.r = 2 THEN Before(2) ELSE <<>>,
             alt,
             [rec EXCEPT !.lshift = t[rec.l].shift,
                         !.loff = tail_offset(heap, t[rec.l]),
                         !.lrelaxed = IsRelaxed(heap, t[rec.l].root),
                         !.rshift = IF rec.r = 0 THEN 0 ELSE t[rec.r].shift,
                         !.roff = IF rec.r = 0 THEN 0
                                  ELSE tail_offset(heap, t[rec.r]),
                         !.sameroot = (res.t.root = t[rec.l].root),
                         !.sametail = (res.t.tail = t[rec.l].tail)])

AssignB(res, newmodel, rec, alt, nextpc) ==
    \E nxt \in {Assigned(res, newmodel, rec, alt)} :
        /\ heap' = nxt.heap
        /\ t' = nxt.t
        /\ got' = nxt.got
        /\ model' = nxt.model
        /\ gotold' = nxt.gotold
        /\ modelold' = nxt.modelold
        /\ gotalt' = nxt.gotalt
        /\ last' = nxt.last
        /\ pc' = nextpc
        /\ plan' = plan

\* the program position from which b = s.op(..) runs, and the one after it
Unary(s) == IF s = 1 THEN pc = "derive" ELSE pc = "probe"
After(s) == IF s = 1 THEN "combine" ELSE "done"

\* b = s.push_back(v)
PushBack(s) ==
    /\ Unary(s)
    /\ AssignB(push_back(heap, t[s], FreshValue(heap)),
               Append(Before(s), FreshValue(heap)),
               OpRec("push_back", s, 0, 0), <<>>, After(s))

\* b = s.update(i, fn)
Update(s, i) ==
    /\ Unary(s)
    /\ i < t[s].size
    /\ AssignB(update(heap, t[s], i, AddFn(FreshValue(heap))),
               [Before(s) EXCEPT ![i + 1] = ApplyFn(AddFn(FreshValue(heap)), @)],
               OpRec("update", s, 0, i), <<>>, After(s))

\* b = a.assoc(i, v)
Assoc(i) ==
    /\ pc = "derive"
    /\ i < t[1].size
    /\ AssignB(assoc(heap, t[1], i, FreshValue(heap)),
               [Before(1) EXCEPT ![i + 1] = FreshValue(heap)],
               OpRec("assoc", 1, 0, i), <<>>, "done")

\* b = s.take(n)
Take(s, n) ==
    /\ Unary(s)
    /\ AssignB(take(heap, t[s], n), SubSeq(Before(s), 1, Min(n, t[s].size)),
               OpRec("take", s, 0, n), <<>>, After(s))

\* b = s.drop(n)
Drop(s, n) ==
    /\ Unary(s)
    /\ AssignB(drop(heap, t[s], n),
               SubSeq(Before(s), Min(n, t[s].size) + 1, t[s].size),
               OpRec("drop", s, 0, n), <<>>, After(s))

\* b = l + r
Concat(l, r) ==
    /\ \/ pc = "combine" /\ l # r
       \/ pc = "probe" /\ 2 \in {l, r}
    /\ AssignB(concat(heap, t[l], t[r]), Before(l) \o Before(r),
               OpRec("concat", l, r, 0), <<>>,
               IF pc = "combine" THEN "probe" ELSE "done")

\* b = s.concat(empty)
ConcatEmpty(s) ==
    /\ Unary(s)
    /\ AssignB(concat(heap, t[s], EmptyTree), Before(s),
               OpRec("concat_empty", s, 0, 0), <<>>, "done")

\* b = empty.concat(a)
EmptyConcat ==
    /\ pc = "derive"
    /\ AssignB(concat(heap, EmptyTree, t[1]), Before(1),
               OpRec("empty_concat", 1, 0, 0), <<>>, "done")

\* s.take(n).concat(s.drop(n)): the temporaries are destroyed
rejoin_done(front, back, both) ==
    [h |-> tree_dec(tree_dec(both.h, front), back), t |-> both.t]

rejoin_back(front, back) == rejoin_done(front.t, back.t, concat(back.h, front.t, back.t))

rejoin_front(s, n, front) == rejoin_back(front, drop(front.h, s, n))

rejoin(h, s, n) == rejoin_front(s, n, take(h, s, n))

\* b = s.take(n).concat(s.drop(n))
Rejoin(s, n) ==
    /\ Unary(s)
    /\ n <= t[s].size
    /\ AssignB(rejoin(heap, t[s], n), Before(s),
               OpRec("rejoin", s, 0, n), <<>>, "done")

\* (x + y) + z and x + (y + z): t is the first, alt the second; the
\* temporaries x + y and y + z are destroyed
regroup_alt(xyz, yz, alt) == [h |-> tree_dec(alt.h, yz), t |-> xyz, alt |-> alt.t]

regroup_yz(x, xyz, yz) == regroup_alt(xyz, yz.t, concat(yz.h, x, yz.t))

regroup_xyz(x, y, z, xy, xyz) ==
    regroup_yz(x, xyz.t, concat(tree_dec(xyz.h, xy), y, z))

regroup_xy(x, y, z, xy) == regroup_xyz(x, y, z, xy.t, concat(xy.h, xy.t, z))

regroup(h, x, y, z) == regroup_xy(x, y, z, concat(h, x, y))

\* b = (x + y) + z, next to x + (y + z), which is read and destroyed
Regroup(x, y, z) ==
    /\ pc = "combine"
    /\ \E both \in {regroup(heap, t[x], t[y], t[z])} :
           AssignB([h |-> tree_dec(both.h, both.alt), t |-> both.t],
                   Before(x) \o Before(y) \o Before(z),
                   OpRec("regroup", x, IF 2 \in {x, y, z} THEN 2 ELSE 0, 0),
                   Elems(both.h, both.alt), "done")

\* the heap, the tree values and what get() reads in them after a statement
Becomes(nxt, nextpc) ==
    /\ heap' = nxt.heap
    /\ t' = nxt.t
    /\ got' = nxt.got
    /\ model' = nxt.model
    /\ gotold' = nxt.gotold
    /\ modelold' = nxt.modelold
    /\ gotalt' = nxt.gotalt
    /\ last' = nxt.last
    /\ pc' = nextpc
    /\ plan' = plan

\* l.op(arg); as a statement of its own: the tree the operation returned
\* is read with get() (gotalt) and destroyed, a and b stay as they are
Discarded(res, rec) ==
    Observed(Canonical(tree_dec(res.h, res.t), t),
             Eager([r \in Regs |-> Before(r)]), <<>>, <<>>,
             Elems(res.h, res.t),
             [rec EXCEPT !.lshift = t[rec.l].shift,
                         !.loff = tail_offset(heap, t[rec.l]),
                         !.sameroot = (res.t.root = t[rec.l].root),
                         !.sametail = (res.t.tail = t[rec.l].tail)])

\* a.update(i, fn); with i >= a.size, for the i whose slot
\* (i - tail_offset) & mask<BL> of the tail holds an element
UpdateOutOfRange(i) ==
    /\ pc = "derive"
    /\ i >= t[1].size
    /\ AndMask(i - tail_offset(heap, t[1]), BL) < tail_size(heap, t[1])
    /\ \E nxt \in {Discarded(update(heap, t[1], i, AddFn(FreshValue(heap))),
                             OpRec("update_out_of_range", 1, 0, i))} :
           Becomes(nxt, "done")

\* the calls of fn in s.for_each_chunk(fn): gotalt is what fn was handed,
\* one range after the other, last.arg the length of every range
Chunked(s, chunks) ==
    Observed(Canonical(heap, t), Eager([r \in Regs |-> Before(r)]), <<>>, <<>>,
             Flat(chunks),
             [OpRec("for_each_chunk", s, 0, ChunkSizes(chunks))
                 EXCEPT !.lshift = t[s].shift,
                        !.loff = tail_offset(heap, t[s])])

ForEachChunk(s) ==
    /\ pc = "derive"
    /\ \E nxt \in {Chunked(s, for_each_chunk(heap, t[s]))} : Becomes(nxt, "done")

\* a = b: copy assignment, the old value of a is destroyed
Copied ==
    Observed(Canonical(tree_dec(tree_inc(heap, t[2]), t[1]), [t EXCEPT ![1] = t[2]]),
             Eager([r \in Regs |-> Before(2)]), <<>>, <<>>, <<>>,
             OpRec("copy", 2, 0, 0))

Copy ==
    /\ pc # "derive"
    /\ t[2].size <= (IF pc = "done" THEN MaxDone ELSE MaxSize)
    /\ \E nxt \in {Copied} :
           /\ heap' = nxt.heap
           /\ t' = nxt.t
           /\ got' = nxt.got
           /\ model' = nxt.model
           /\ gotold' = nxt.gotold
           /\ modelold' = nxt.modelold
           /\ gotalt' = nxt.gotalt
           /\ last' = nxt.last
           /\ pc' = "derive"
           /\ plan' = plan

(***************************************************************************)
(* Operations under fault injection: dada() throws at its k-th call, in a  *)
(* node allocation, an element construction or the callback of update.     *)
(* The exception reaches the caller, b is not assigned, and get() reads a  *)
(* and b in the memory the exception left.                                 *)
(***************************************************************************)
Failing(res, rec) ==
    Observed(Canonical(res.h[g_dadaism].saved, t),
             Eager([r \in Regs |-> Before(r)]), <<>>, <<>>, <<>>,
             [rec EXCEPT !.failed = TRUE,
                         !.lshift = t[rec.l].shift,
                         !.loff = tail_offset(heap, t[rec.l])])

Throws(res, rec) ==
    /\ Thrown(res.h)
    /\ \E nxt \in {Failing(res, rec)} : Becomes(nxt, "done")

DadaPushBack(s, k) ==
    /\ Unary(s)
    /\ Throws(push_back(next(heap, k), t[s], FreshValue(heap)),
              OpRec("push_back", s, 0, 0))

\* b = a.push_back(v), then b = b.push_back(v) again and again
Grow(s) ==
    /\ \/ s = 1 /\ pc = "derive"
       \/ s = 2 /\ pc = "grow"
    /\ t[s].size < MaxGrow
    /\ AssignB(push_back(heap, t[s], FreshValue(heap)),
               Append(Before(s), FreshValue(heap)),
               OpRec("push_back", s, 0, 0), <<>>, "grow")

\* b = b.push_back(v) on the grown b, failing
DadaGrow(k) ==
    /\ pc = "grow"
    /\ Throws(push_back(next(heap, k), t[2], FreshValue(heap)),
              OpRec("push_back", 2, 0, 0))

DadaUpdate(s, i, k) ==
    /\ Unary(s)
    /\ i < t[s].size
    /\ Throws(update(next(heap, k), t[s], i, AddFn(FreshValue(heap))),
              OpRec("update", s, 0, i))

DadaTake(s, n, k) ==
    /\ Unary(s)
    /\ Throws(take(next(heap, k), t[s], n), OpRec("take", s, 0, n))

DadaDrop(s, n, k) ==
    /\ Unary(s)
    /\ Throws(drop(next(heap, k), t[s], n), OpRec("drop", s, 0, n))

DadaConcat(l, r, k) ==
    /\ \/ pc = "combine" /\ l # r
       \/ pc = "probe" /\ 2 \in {l, r}
    /\ Throws(concat(next(heap, k), t[l], t[r]), OpRec("concat", l, r, 0))

Next ==
    \/ \E s \in Regs : PushBack(s)
    \/ \E s \in Regs : \E i \in 0 .. t[s].size - 1 : Update(s, i)
    \/ \E s \in Regs : \E n \in 0 .. t[s].size + 1 : Take(s, n)
    \/ \E s \in Regs : \E n \in 0 .. t[s].size + 1 : Drop(s, n)
    \/ \E i \in 0 .. t[1].size - 1 : Assoc(i)
    \/ \E l \in Regs : \E r \in Regs : Concat(l, r)
    \/ \E s \in Regs : ConcatEmpty(s)
    \/ EmptyConcat
    \/ \E s \in Regs : \E n \in 0 .. t[s].size : Rejoin(s, n)
    \/ \E x \in Regs : \E y \in Regs : \E z \in Regs : Regroup(x, y, z)
    \/ \E i \in 0 .. t[1].size + Branches(BL) : UpdateOutOfRange(i)
    \/ \E s \in Regs : ForEachChunk(s)
    \/ Copy

Spec == Init /\ [][Next]_vars

NextDada ==
    \/ Next
    \/ \E s \in Regs : \E k \in 1 .. MaxDada : DadaPushBack(s, k)
    \/ \E s \in Regs : \E i \in 0 .. t[s].size - 1 : \E k \in 1 .. MaxDada :
           DadaUpdate(s, i, k)
    \/ \E s \in Regs : \E n \in 0 .. t[s].size + 1 : \E k \in 1 .. MaxDada :
           DadaTake(s, n, k)
    \/ \E s \in Regs : \E n \in 0 .. t[s].size + 1 : \E k \in 1 .. MaxDada :
           DadaDrop(s, n, k)
    \/ \E l \in Regs : \E r \in Regs : \E k \in 1 .. MaxDada : DadaConcat(l, r, k)
    \/ \E s \in Regs : Grow(s)
    \/ \E k \in 1 .. MaxDada : DadaGrow(k)

SpecDada == Init /\ [][NextDada]_vars

(***************************************************************************)
(* The transient program (transient_tester): a grows by push_back and,      *)
(* while small, may be cut once by drop, then                              *)
(*     vt = a.transient();                                                 *)
(*     vt.op_mut(..); vt.op_mut(..);     at most MaxMut of them, and       *)
(*                                       MaxMutSmall when a is small       *)
(*     a = vt.persistent();                                                *)
(* b (t[2]) is the tree of the transient vt.  After every statement get()  *)
(* reads a and vt; gotalt is what the persistent operation returns on the  *)
(* tree vt held before the statement.  vt.concat_mut(a) may also run with  *)
(* the j-th dada() throwing.                                               *)
(***************************************************************************)
\* a holds at most MaxFill elements when the transient is taken
MaxFill == 12
\* the mutating operations of one transient session: MaxMut of them, and
\* MaxMutSmall when a holds at most MaxSize elements
MaxMut == 2
MaxMutSmall == 4

\* the edit token of the transient session
edit == 1

\* nodes a mutating operation allocates get addresses from h[g_floor] on,
\* so that no address of a node it frees comes back during the operation
Floored(h) == (g_floor :> Cardinality(DOMAIN h)) @@ h

\* every node the trees reach, and every child of it, is in the memory
RECURSIVE Sound(_, _)
Sound(h, ids) ==
    \/ ids = <<>>
    \/ /\ Head(ids) \in DOMAIN h
       /\ Sound(h, h[Head(ids)].ch)
       /\ Sound(h, Tail(ids))

\* No node that existed in h0 and that e could not mutate there was written
\* in h1: it is gone, or it is as it was but for its reference count.
Unwritten(h0, h1, e) ==
    \A n \in DOMAIN h0 :
        \/ can_mutate(h0, n, e)
        \/ n \notin DOMAIN h1
        \/ [h1[n] EXCEPT !.rc = 0] = [h0[n] EXCEPT !.rc = 0]

\* every node h1 has and h0 had not carries e
AllStamped(h0, h1, e) ==
    \A n \in (DOMAIN h1) \ (DOMAIN h0) : n = g_floor \/ h1[n].ownee = e

\* the program position before the k-th mutating operation, and after it
MutStep(k) == "mut" \o ToString(k)
MutSteps == IF t[1].size <= MaxSize THEN MaxMutSmall ELSE MaxMut
MutAfter(k) == IF k >= MutSteps THEN "sealed" ELSE MutStep(k + 1)

\* a = a.push_back(v)
Filled(res) ==
    Observed(Canonical(tree_dec(res.h, t[1]), [t EXCEPT ![1] = res.t]),
             Eager([r \in Regs |-> IF r = 1 THEN Append(Before(1), FreshValue(heap))
                                   ELSE Before(r)]),
             <<>>, <<>>, <<>>, OpRec("fill", 1, 0, 0))

Fill ==
    /\ pc = "derive"
    /\ t[1].size < MaxFill
    /\ \E nxt \in {Filled(push_back(heap, t[1], FreshValue(heap)))} :
           Becomes(nxt, "derive")

\* a = a.drop(n), once, while a is small
Dropped(res, n) ==
    Observed(Canonical(tree_dec(res.h, t[1]), [t EXCEPT ![1] = res.t]),
             Eager([r \in Regs |-> IF r = 1
                                   THEN SubSeq(Before(1), n + 1, t[1].size)
                                   ELSE Before(r)]),
             <<>>, <<>>, <<>>, OpRec("fill_drop", 1, 0, n))

FillDrop(n) ==
    /\ pc = "derive"
    /\ t[1].size <= MaxSize
    /\ n < t[1].size
    /\ \E nxt \in {Dropped(drop(heap, t[1], n), n)} : Becomes(nxt, "kept")

\* vt = a.transient(): the transient shares the tree of a
Shared ==
    Observed(Canonical(tree_dec(tree_inc(heap, t[1]), t[2]), [t EXCEPT ![2] = t[1]]),
             Eager([r \in Regs |-> Before(1)]), <<>>, <<>>, <<>>,
             OpRec("transient", 1, 0, 0))

BeginTransient ==
    /\ pc \in {"derive", "kept"}
    /\ \E nxt \in {Shared} : Becomes(nxt, MutStep(1))

\* vt.op_mut(..): res is the memory and the tree the mutating operation
\* left, pres what the persistent operation returns in the memory before
Mutated(res, pres, newmodel, rec) ==
    Observed(Canonical(Nodes(res.h), [t EXCEPT ![2] = res.t]),
             Eager([r \in Regs |-> IF r = 2 THEN newmodel ELSE Before(r)]),
             <<>>, <<>>, Elems(pres.h, pres.t),
             [rec EXCEPT !.lshift = t[2].shift,
                         !.loff = tail_offset(heap, t[2]),
                         !.sameroot = (res.t.root = t[2].root),
                         !.sametail = (res.t.tail = t[2].tail),
                         !.inplace = Unwritten(heap, res.h, edit),
                         !.stamped = AllStamped(heap, res.h, edit)])

\* A statement that left a with a node that was freed: what get() reads in
\* a is what the freed memory holds, the elements as they were (stale) or
\* whatever was written there since.  was and ref are what a held.
Freed(rec, stale, was, ref) ==
    [heap |-> heap, t |-> t,
     got |-> Eager([r \in Regs |->
                IF r # 1 THEN <<>>
                ELSE IF stale THEN was
                ELSE EagerSeq([i \in 1 .. Len(was) |-> Garbage])]),
     model |-> Eager([r \in Regs |-> IF r = 1 THEN ref ELSE <<>>]),
     gotold |-> <<>>, modelold |-> <<>>, gotalt |-> <<>>,
     last |-> [rec EXCEPT !.dangling = TRUE]]

Mutate(k, res, pres, newmodel, rec) ==
    /\ pc = MutStep(k)
    /\ IF Sound(res.h, <<t[1].root, t[1].tail, res.t.root, res.t.tail>>)
       THEN \E nxt \in {Mutated(res, pres, newmodel, rec)} :
                Becomes(nxt, MutAfter(k))
       ELSE \E stale \in BOOLEAN :
                Becomes(Freed([rec EXCEPT !.inplace = Unwritten(heap, res.h, edit),
                                          !.stamped = AllStamped(heap, res.h, edit)],
                              stale, got[1], model[1]),
                        "corrupt")

PushBackMut(k) ==
    Mutate(k, push_back_mut(Floored(heap), t[2], edit, FreshValue(heap)),
           push_back(heap, t[2], FreshValue(heap)),
           Append(Before(2), FreshValue(heap)),
           OpRec("push_back_mut", 2, 0, 0))

UpdateMut(k, i) ==
    /\ i < t[2].size
    /\ Mutate(k, update_mut(Floored(heap), t[2], edit, i, AddFn(FreshValue(heap))),
              update(heap, t[2], i, AddFn(FreshValue(heap))),
              [Before(2) EXCEPT ![i + 1] = ApplyFn(AddFn(FreshValue(heap)), @)],
              OpRec("update_mut", 2, 0, i))

TakeMut(k, n) ==
    Mutate(k, take_mut(Floored(heap), t[2], edit, n), take(heap, t[2], n),
           SubSeq(Before(2), 1, Min(n, t[2].size)),
           OpRec("take_mut", 2, 0, n))

DropMut(k, n) ==
    Mutate(k, drop_mut(Floored(heap), t[2], edit, n), drop(heap, t[2], n),
           SubSeq(Before(2), Min(n, t[2].size) + 1, t[2].size),
           OpRec("drop_mut", 2, 0, n))

\* vt.concat_mut(a)
ConcatMut(k) ==
    Mutate(k, concat_mut(Floored(heap), t[2], edit, t[1]),
           concat(heap, t[2], t[1]), Before(2) \o Before(1),
           OpRec("concat_mut", 2, 1, 0))

\* the nodes the tree values reach, and no others
Reachable(h, tt) == Eager([i \in SeqRange(Reached(h, tt)) |-> h[i]])

\* vt.concat_mut(a) threw and the caller has the exception: it gives vt up
\* without touching it again, and get() reads a in the memory the failure
\* left
ConcatMutThrew(saved, tt, rec) ==
    Observed(Canonical(Reachable(tree_inc(saved, EmptyTree), tt), tt),
             Eager([r \in Regs |-> IF r = 1 THEN Before(1) ELSE <<>>]),
             <<>>, <<>>, <<>>,
             [rec EXCEPT !.failed = TRUE,
                         !.inplace = Unwritten(heap, saved, edit),
                         !.stamped = AllStamped(heap, saved, edit)])

\* std::terminate(): the process is over, nothing is read any more
ConcatMutAborted(rec) ==
    [heap |-> heap, t |-> t, got |-> got, model |-> model, gotold |-> <<>>,
     modelold |-> <<>>, gotalt |-> <<>>, last |-> [rec EXCEPT !.failed = TRUE]]

ConcatMutFails(res, rec) ==
    /\ Thrown(res.h)
    /\ IF Terminated(res.h)
       THEN \E nxt \in {ConcatMutAborted(rec)} : Becomes(nxt, "terminated")
       ELSE IF Sound(res.h[g_dadaism].saved, <<t[1].root, t[1].tail>>)
       THEN \E nxt \in {ConcatMutThrew(res.h[g_dadaism].saved,
                                        [t EXCEPT ![2] = EmptyTree], rec)} :
                Becomes(nxt, "failed")
       ELSE \E stale \in BOOLEAN :
                Becomes(Freed([rec EXCEPT !.failed = TRUE], stale, got[1],
                              model[1]),
                        "corrupt")

\* vt.concat_mut(a) in which the j-th allocation or copy fails
DadaConcatMut(k, j) ==
    /\ pc = MutStep(k)
    /\ ConcatMutFails(concat_mut(next(Floored(heap), j), t[2], edit, t[1]),
                      OpRec("concat_mut", 2, 1, j))

\* a = vt.persistent(): a gets the tree of the transient, the old value of
\* a is destroyed
Persisted(h) ==
    Observed(Canonical(h, [t EXCEPT ![1] = t[2]]),
             Eager([r \in Regs |-> Before(2)]), <<>>, <<>>, <<>>,
             OpRec("persistent", 2, 0, 0))

Persistent1(h) ==
    IF Sound(h, <<t[2].root, t[2].tail>>)
    THEN \E nxt \in {Persisted(h)} : Becomes(nxt, "done")
    ELSE \E stale \in BOOLEAN :
             Becomes(Freed(OpRec("persistent", 2, 0, 0), stale, got[2], model[2]),
                     "corrupt")

Persist ==
    /\ pc \in {MutStep(k) : k \in 2 .. MaxMutSmall} \cup {"sealed"}
    /\ Persistent1(tree_dec(tree_inc(heap, t[2]), t[1]))

NextMut ==
    \/ Fill
    \/ \E n \in 1 .. MaxSize : FillDrop(n)
    \/ BeginTransient
    \/ \E k \in 1 .. MaxMutSmall : PushBackMut(k)
    \/ \E k \in 1 .. MaxMutSmall : \E i \in 0 .. t[2].size - 1 : UpdateMut(k, i)
    \/ \E k \in 1 .. MaxMutSmall : \E n \in 0 .. t[2].size + 1 : TakeMut(k, n)
    \/ \E k \in 1 .. MaxMutSmall : \E n \in 0 .. t[2].size + 1 : DropMut(k, n)
    \/ \E k \in 1 .. MaxMutSmall : ConcatMut(k)
    \/ \E k \in 1 .. MaxMutSmall : \E j \in 1 .. MaxDada : DadaConcatMut(k, j)
    \/ Persist

SpecMut == Init /\ [][NextMut]_vars

(***************************************************************************)
(* The persistent program on larger trees: a grows by push_back to at most *)
(* MaxFill elements before the first statement of the program.             *)
(***************************************************************************)
FillFirst ==
    /\ last.op \in {"init", "fill"}
    /\ Fill

NextBig ==
    \/ FillFirst
    \/ Next

SpecBig == Init /\ [][NextBig]_vars

(***************************************************************************)
(* concat_rebalance_plan::shuffle on its own, statement by statement, on   *)
(* every plan of up to max_children counts, each the count of a child: 1   *)
(* to branches<BL> elements of a leaf when shift is BL, 1 to branches<B>   *)
(* children of an inner node above.  A read of counts[k] with k >= n finds *)
(* what fill() never wrote: the run stops there, at "stray".               *)
(***************************************************************************)
\* the shifts of the centre shuffle() is called with: BL, and one above
PlanShifts == {BL, BL + B}

shuffle_branches(shift) == Pow2(IF shift = BL THEN BL ELSE B)

shuffle_optimal(total, shift) ==
    Shr(total - 1, IF shift = BL THEN BL ELSE B) + 1

\* what fill() leaves for children of the counts cs
PlanOf(cs, shift) ==
    PlanRec(Eager([k \in 0 .. MaxChildren - 1 |->
                      IF k < Len(cs) THEN cs[k + 1] ELSE 0]),
            Len(cs), SumSeq(cs), shift)

InitPlan ==
    /\ heap = (EmptyRootId :> [MkInner(<<>>) EXCEPT !.rc = 1 + NumRegs])
              @@ (EmptyTailId :> [MkLeaf(<<>>) EXCEPT !.rc = 1 + NumRegs])
    /\ t = [r \in Regs |-> EmptyTree]
    /\ got = [r \in Regs |-> <<>>]
    /\ model = [r \in Regs |-> <<>>]
    /\ gotold = <<>>
    /\ modelold = <<>>
    /\ gotalt = <<>>
    /\ last = OpRec("shuffle", 0, 0, 0)
    /\ pc = "shuffle"
    /\ \E shift \in PlanShifts, n \in 0 .. MaxChildren :
           \E cs \in [1 .. n -> 1 .. shuffle_branches(shift)] :
               plan = PlanOf(cs, shift)

PlanBecomes(nxt, nextpc) ==
    /\ plan' = nxt
    /\ pc' = nextpc
    /\ UNCHANGED <<heap, t, got, model, gotold, modelold, gotalt, last>>

\* while (n >= optimal + rrb_extras)
ShuffleWhile ==
    /\ pc = "shuffle"
    /\ IF plan.n >= shuffle_optimal(plan.total, plan.shift) + 2
       THEN PlanBecomes([plan EXCEPT !.was_n = plan.n, !.loops = @ + 1],
                        "skip")
       ELSE PlanBecomes(plan, "shuffled")

\* while (counts[i] > branches - rrb_invariant) i++;
\* auto remaining = counts[i];
ShuffleSkip ==
    /\ pc = "skip"
    /\ IF plan.i >= plan.n
       THEN PlanBecomes(plan, "stray")
       ELSE IF plan.counts[plan.i] > shuffle_branches(plan.shift) - 1
       THEN PlanBecomes([plan EXCEPT !.i = @ + 1], "skip")
       ELSE PlanBecomes([plan EXCEPT !.remaining = plan.counts[plan.i]],
                        "redistribute")

\* a round that leaves remaining as it was
shuffle_round_keeps_remaining(p, count) ==
    [p EXCEPT !.counts[p.i] = count, !.i = p.i + 1]

\* the plan after one round of the do-while
shuffle_round(p, count) ==
    [p EXCEPT !.counts[p.i] = count,
              !.remaining = p.remaining + p.counts[p.i + 1] - count,
              !.i = p.i + 1]

\* do { .. } while (remaining > 0);
ShuffleRedistribute ==
    /\ pc = "redistribute"
    /\ IF plan.i + 1 >= plan.n
       THEN PlanBecomes(plan, "stray")
       ELSE \E nxt \in {shuffle_round(plan,
                            Min(plan.remaining + plan.counts[plan.i + 1],
                                shuffle_branches(plan.shift)))} :
                PlanBecomes(nxt, IF nxt.remaining > 0 THEN "redistribute"
                                 ELSE "remove")

\* std::move(counts + i + 1, counts + n, counts + i); --n; --i;
ShuffleRemove ==
    /\ pc = "remove"
    /\ PlanBecomes([plan EXCEPT !.counts = shuffle_remove(plan.counts, plan.i,
                                                         plan.n),
                                !.n = @ - 1, !.i = @ - 1],
                   "shuffle")

NextPlan ==
    \/ ShuffleWhile
    \/ ShuffleSkip
    \/ ShuffleRedistribute
    \/ ShuffleRemove

SpecPlan == InitPlan /\ [][NextPlan]_vars

(***************************************************************************)
(* Properties                                                              *)
(***************************************************************************)
\* what operand r of the last statement held before the statement
Operand(r) == IF r = 1 THEN model[1] ELSE modelold

Persistent ==
    {"push_back", "update", "assoc", "take", "drop", "concat",
     "concat_empty", "empty_concat", "rejoin", "regroup"}

HasBody(r) == 0 < tail_offset(heap, t[r]) /\ tail_offset(heap, t[r]) < t[r].size

\* C1: every tree built by push_back, update/assoc, take, drop and concat has
\* the size of its reference list, and get(i) returns the i-th element of
\* that list at every index
C1_IndexEquivalence ==
    \A r \in Regs : t[r].size = Len(model[r]) /\ got[r] = model[r]

\* a holds a regular root and b a relaxed root above the leaves' parents,
\* both with elements in the body and in the tail
C1_Witness ==
    /\ last.op \in Persistent
    /\ ~IsRelaxed(heap, t[1].root) /\ HasBody(1)
    /\ IsRelaxed(heap, t[2].root) /\ t[2].shift > BL /\ HasBody(2)
    /\ got[2] = model[2]

\* C2: after a persistent operation its operands have the size and the
\* elements they had before it, and so has a, whether an operand or not
C2_InputsUnchanged ==
    last.op \in Persistent =>
        /\ t[1].size = Len(model[1]) /\ got[1] = model[1]
        /\ (2 \in {last.l, last.r} => gotold = modelold)

\* b = b.update(i, f) on a tree b of eight or more elements that shares
\* nodes with a
C2_Witness ==
    /\ last.op = "update" /\ last.l = 2
    /\ Len(modelold) >= 2 * Branches(B) /\ gotold = modelold
    /\ HasBody(1) /\ got[1] = model[1]

\* C3: take(n) returns the first min(n, size) elements
C3_Take ==
    last.op = "take" =>
        /\ t[2].size = Min(last.arg, Len(Operand(last.l)))
        /\ \A i \in 1 .. t[2].size : got[2][i] = Operand(last.l)[i]

\* take(n) with n inside the body of a tree whose root is above the leaves'
\* parents
C3_Witness ==
    /\ last.op = "take" /\ last.lshift > BL
    /\ 0 < last.arg /\ last.arg < last.loff
    /\ t[2].size = last.arg

\* C4: drop(n) returns the elements after the first min(n, size)
C4_Drop ==
    last.op = "drop" =>
        LET n == Min(last.arg, Len(Operand(last.l)))
        IN  /\ t[2].size = Len(Operand(last.l)) - n
            /\ \A i \in 1 .. t[2].size : got[2][i] = Operand(last.l)[i + n]

\* drop(n) with n inside the body of a tree whose root is above the leaves'
\* parents
C4_Witness ==
    /\ last.op = "drop" /\ last.lshift > BL
    /\ 0 < last.arg /\ last.arg < last.loff
    /\ t[2].size = Len(modelold) - last.arg

\* C5: l.concat(r) has the elements of l followed by the elements of r
C5_Concat ==
    last.op = "concat" =>
        /\ t[2].size = Len(Operand(last.l)) + Len(Operand(last.r))
        /\ \A k \in 1 .. t[2].size :
               got[2][k] = IF k <= Len(Operand(last.l))
                           THEN Operand(last.l)[k]
                           ELSE Operand(last.r)[k - Len(Operand(last.l))]

\* both operands have elements in the body, and roots of different shift
C5_Witness ==
    /\ last.op = "concat" /\ last.lshift # last.rshift
    /\ last.loff > 0 /\ last.roff > 0
    /\ t[2].size = Len(Operand(last.l)) + Len(Operand(last.r))

\* C6: update(i, f) and assoc(i, v) return a tree of the same size that holds
\* f(s.get(i)), respectively v, at i and what s holds everywhere else; with
\* i in the tail the result has the root of s and a tail of its own, with i
\* in the body the tail of s and a root of its own
C6_Update ==
    last.op \in {"update", "assoc"} =>
        /\ t[2].size = Len(Operand(last.l))
        /\ \A j \in 1 .. t[2].size :
               got[2][j] = IF j = last.arg + 1 THEN model[2][j]
                           ELSE Operand(last.l)[j]
        /\ IF last.arg >= last.loff
           THEN last.sameroot /\ ~last.sametail
           ELSE last.sametail /\ ~last.sameroot

\* update of an element in the body of a tree whose root is above the
\* leaves' parents
C6_Witness ==
    /\ last.op = "update" /\ last.lshift > BL /\ last.arg < last.loff
    /\ last.sametail /\ ~last.sameroot
    /\ got[2][last.arg + 1] # Operand(last.l)[last.arg + 1]

\* C7: s.take(n).concat(s.drop(n)) has the size and the elements of s
C7_TakeDropConcat ==
    last.op = "rejoin" =>
        /\ t[2].size = Len(Operand(last.l))
        /\ got[2] = Operand(last.l)

\* s is cut inside the body of a tree whose root is above the leaves' parents
C7_Witness ==
    /\ last.op = "rejoin" /\ last.lshift > BL
    /\ 0 < last.arg /\ last.arg < last.loff
    /\ got[2] = Operand(last.l)

\* C8: s.concat(empty) and empty.concat(s) have the size and the elements
\* of s
C8_EmptyIdentity ==
    last.op \in {"concat_empty", "empty_concat"} =>
        /\ t[2].size = Len(Operand(last.l))
        /\ got[2] = Operand(last.l)

\* empty.concat(a) for a relaxed a with elements in the body
C8_Witness ==
    /\ last.op = "empty_concat"
    /\ IsRelaxed(heap, t[1].root) /\ HasBody(1)
    /\ got[2] = model[1]

\* C9: (x + y) + z and x + (y + z) have the same size and the same elements
C9_ConcatAssociative ==
    last.op = "regroup" =>
        /\ Len(gotalt) = t[2].size
        /\ got[2] = gotalt

\* the three operands are not empty and the result has its root above the
\* leaves' parents
C9_Witness ==
    /\ last.op = "regroup" /\ last.r = 2
    /\ Len(model[1]) > 0 /\ Len(modelold) > 0
    /\ t[2].size > Len(model[1]) + Len(modelold)
    /\ t[2].shift > BL
    /\ got[2] = gotalt

\* C10: take(size) and drop(0) have the size and the elements of s;
\* take(0) and drop(size) are empty
C10_BoundarySlices ==
    LET s == Operand(last.l)
    IN  /\ (last.op = "take" /\ last.arg = Len(s)) \/ (last.op = "drop" /\ last.arg = 0)
           => t[2].size = Len(s) /\ got[2] = s
        /\ (last.op = "take" /\ last.arg = 0) \/ (last.op = "drop" /\ last.arg = Len(s))
           => t[2].size = 0 /\ got[2] = <<>>

\* drop(size) of a tree whose root is above the leaves' parents
C10_Witness ==
    /\ last.op = "drop" /\ last.lshift > BL
    /\ last.arg = Len(Operand(last.l)) /\ last.arg > 0
    /\ t[2].size = 0

\* C11: update(i, f) with i >= size fails: it returns no tree, and the tree
\* it was called on holds what it held before
C11_OutOfRangeRejected ==
    last.op = "update_out_of_range" =>
        /\ last.failed
        /\ gotalt = <<>>
        /\ got[1] = model[1]

\* C18: for_each_chunk hands fn the body leaves from left to right and then
\* the tail; the ranges one after the other are get(0), ..., get(size - 1),
\* and the last range is the size - tail_offset() elements of the tail
C18_ForEachChunk ==
    last.op = "for_each_chunk" =>
        /\ gotalt = got[last.l]
        /\ gotalt = model[last.l]
        /\ Len(last.arg) >= 1
        /\ last.arg[Len(last.arg)] = tail_size(heap, t[last.l])
        /\ \A k \in 1 .. Len(last.arg) - 1 :
               1 <= last.arg[k] /\ last.arg[k] <= Branches(BL)

C18_Witness ==
    /\ last.op = "for_each_chunk"
    /\ IsRelaxed(heap, t[last.l].root)
    /\ Len(last.arg) >= 3
    /\ \E k \in 1 .. Len(last.arg) - 1 : last.arg[k] < Branches(BL)
    /\ Len(gotalt) = t[last.l].size

\* C19: in every tree tail_offset() <= size, and unless the tree is empty
\* size - tail_offset() is between 1 and 1 << BL and is the number of
\* elements of the tail leaf
C19_TailBound ==
    \A r \in Regs :
        /\ tail_offset(heap, t[r]) <= t[r].size
        /\ t[r].size > 0 =>
               /\ 1 <= tail_size(heap, t[r])
               /\ tail_size(heap, t[r]) <= Branches(BL)
               /\ Len(heap[t[r].tail].data) = tail_size(heap, t[r])

C19_Witness ==
    /\ last.op = "drop"
    /\ 0 < last.arg /\ last.arg < last.loff
    /\ IsRelaxed(heap, t[2].root)
    /\ tail_offset(heap, t[2]) > 0
    /\ tail_size(heap, t[2]) = 1

\* C20: a tree without body (tail_offset() = 0) has shift BL and the root
\* of rrbtree::empty
C20_EmptyBody ==
    \A r \in Regs :
        tail_offset(heap, t[r]) = 0 =>
            /\ t[r].shift = BL
            /\ t[r].root = EmptyRootId
            /\ heap[EmptyRootId].kind = "inner"
            /\ heap[EmptyRootId].ch = <<>>

C20_Witness ==
    /\ last.op = "drop"
    /\ last.arg = last.loff /\ last.loff > 0
    /\ tail_offset(heap, t[2]) = 0
    /\ t[2].size > 0
    /\ t[last.l].root # EmptyRootId

Occurrences(s, x) == Cardinality({i \in 1 .. Len(s) : s[i] = x})

RECURSIVE ParentRefs(_, _, _)
ParentRefs(h, n, id) ==
    IF n \notin DOMAIN h THEN 0
    ELSE Occurrences(h[n].ch, id) + ParentRefs(h, n + 1, id)

RefsTo(h, tt, id) ==
    ParentRefs(h, 0, id) + Occurrences(Roots(tt, 1), id)
      + (IF id \in {EmptyRootId, EmptyTailId} THEN 1 ELSE 0)

RefCountsExact == \A id \in DOMAIN heap : heap[id].rc = RefsTo(heap, t, id)
NoLeak == DOMAIN heap = SeqRange(Reached(heap, t))

\* C12: when push_back, update, take, drop or concat fails, every input tree
\* has the size and the elements it had before the call
C12_StrongGuarantee ==
    last.failed =>
        \A r \in Regs : got[r] = model[r] /\ Len(got[r]) = t[r].size

C12_Witness ==
    /\ last.failed
    /\ last.op = "concat"
    /\ t[last.l].size > Branches(BL)
    /\ IsRelaxed(heap, t[last.r].root)

\* C13: a failed operation frees every node it allocated and leaves every
\* reference count as it was: in every state each node is counted once per
\* reference, every node is reached from a tree, and destroying the trees
\* leaves the root and the tail of rrbtree::empty only
C13_NoLeak ==
    /\ RefCountsExact
    /\ NoLeak
    /\ DOMAIN tree_dec(tree_dec(heap, t[1]), t[2]) = {EmptyRootId, EmptyTailId}

C13_Witness ==
    /\ last.failed
    /\ last.op = "push_back"
    /\ IsRelaxed(heap, t[last.l].root)
    /\ tail_size(heap, t[last.l]) = Branches(BL)

(***************************************************************************)
(* The transient: vt shares the nodes of a and is edited in place          *)
(***************************************************************************)
MutOps == {"push_back_mut", "update_mut", "take_mut", "drop_mut", "concat_mut"}

\* C14: what the transient holds after every mutating operation is what the
\* persistent operation returns for the same operands, element by element,
\* and after a = vt.persistent() the tree a holds the elements the sequence
\* of operations gives, in size and at every index
C14_TransientEqualsPersistent ==
    /\ last.op \in MutOps /\ ~last.failed /\ ~last.dangling
           => /\ got[2] = gotalt
              /\ got[2] = model[2]
              /\ t[2].size = Len(model[2])
    /\ last.op = "persistent"
           => got[1] = model[1] /\ t[1].size = Len(model[1])

\* C15: a mutating operation writes no node that its edit token could not
\* mutate (refcount 1 and ownee = e) when the operation began: such a node
\* is as it was but for its reference count, or it is released; and every
\* node the operation allocated carries the edit token
C15_InPlaceOnlyWhenOwned ==
    last.op \in MutOps => last.inplace /\ last.stamped

\* push_back_mut on a full tail and a root the transient owns: the root is
\* written in place, the new tail is a fresh node carrying the token
C15_Witness ==
    /\ last.op = "push_back_mut" /\ ~last.dangling
    /\ last.loff > 0
    /\ last.sameroot /\ ~last.sametail
    /\ heap[t[2].root].ownee = edit /\ heap[t[2].tail].ownee = edit
    /\ t[2].root # t[1].root
    /\ got[2] = model[2]

\* C16: after every mutating operation on the transient the persistent tree
\* a has the size it had and get() reads in it what it read before
C16_PersistentUnchanged ==
    last.op \in MutOps
        => got[1] = model[1] /\ t[1].size = Len(model[1]) /\ ~last.dangling

\* C17: a concat_mut in which an allocation or a copy fails comes back to
\* the caller with the failure, and a reads as it did before
C17_FailureSurfaced ==
    last.op = "concat_mut" /\ last.failed
        => pc = "failed" /\ got[1] = model[1] /\ ~last.dangling

(***************************************************************************)
(* The shape of the trees the persistent operations build                  *)
(***************************************************************************)
\* C21: after every statement every node in the memory has a reference
\* count of at least 1 that equals the number of references to it, from
\* parent nodes and from the tree values (one for a root, one for a tail),
\* and every node in the memory is reached from a tree value: a node whose
\* last reference went was freed, and its children released once each
C21_RefCountAccuracy ==
    /\ \A id \in DOMAIN heap :
           heap[id].rc >= 1 /\ heap[id].rc = RefsTo(heap, t, id)
    /\ \A id \in DOMAIN heap : id \in SeqRange(Reached(heap, t))

\* a = b destroyed the old value of a; a and b now share a body, of which a
\* leaf hangs under two parents or twice under one
C21_Witness ==
    /\ last.op = "copy"
    /\ t[1].root = t[2].root /\ t[1].size > Branches(BL)
    /\ heap[t[1].root].rc = 2
    /\ \E id \in DOMAIN heap :
           /\ heap[id].kind = "leaf"
           /\ ParentRefs(heap, 0, id) >= 2

\* the elements stored in the leaves under the nodes ids
RECURSIVE StoredIn(_, _)
StoredIn(h, ids) ==
    IF ids = <<>> THEN 0
    ELSE (IF h[Head(ids)].kind = "leaf" THEN Len(h[Head(ids)].data)
          ELSE StoredIn(h, h[Head(ids)].ch))
         + StoredIn(h, Tail(ids))

\* C22: every relaxed inner node of a tree has at least one child, a size
\* table with one entry per child that is strictly increasing from an entry
\* above 0, and a last entry equal to the number of elements stored in the
\* leaves under the node
C22_SizeTables ==
    \A id \in DOMAIN heap :
        heap[id].kind = "relaxed" =>
            /\ Len(heap[id].ch) >= 1
            /\ Len(heap[id].sizes) = Len(heap[id].ch)
            /\ heap[id].sizes[1] > 0
            /\ \A k \in 2 .. Len(heap[id].sizes) :
                   heap[id].sizes[k - 1] < heap[id].sizes[k]
            /\ heap[id].sizes[Len(heap[id].sizes)] = StoredIn(heap, heap[id].ch)

\* drop inside the first leaf of a body of several leaves: the relaxed
\* root drop built holds what is left of the leaf and the leaves after it
C22_Witness ==
    /\ last.op = "drop" /\ last.arg > 0
    /\ IsRelaxed(heap, t[2].root)
    /\ Len(heap[t[2].root].ch) >= 2
    /\ heap[t[2].root].sizes[1] < Branches(BL)
    /\ heap[t[2].root].sizes[Len(heap[t[2].root].sizes)]
           = tail_offset(heap, t[last.l]) - last.arg

\* every leaf under the nodes ids holds Branches(BL) elements
RECURSIVE LeavesFull(_, _)
LeavesFull(h, ids) ==
    \/ ids = <<>>
    \/ /\ IF h[Head(ids)].kind = "leaf"
          THEN Len(h[Head(ids)].data) = Branches(BL)
          ELSE LeavesFull(h, h[Head(ids)].ch)
       /\ LeavesFull(h, Tail(ids))

\* C23: for every tree tail_offset() is the number of elements stored in
\* the leaves under its root, the tail holds the rest of size, and under a
\* regular root every leaf is full
C23_TailOffsetExact ==
    \A r \in Regs :
        /\ tail_offset(heap, t[r]) = StoredIn(heap, <<t[r].root>>)
        /\ t[r].size - tail_offset(heap, t[r]) <= Len(heap[t[r].tail].data)
        /\ ~IsRelaxed(heap, t[r].root) => LeavesFull(heap, <<t[r].root>>)

\* take on a tree with a relaxed root that collapsed onto a regular node
\* below it
C23_Witness ==
    /\ last.op = "take" /\ ~last.failed
    /\ last.lrelaxed
    /\ ~IsRelaxed(heap, t[2].root) /\ t[2].root # EmptyRootId
    /\ t[2].shift < last.lshift
    /\ tail_offset(heap, t[2]) = AndNotMask(t[2].size - 1, BL)
    /\ tail_offset(heap, t[2]) > 0

\* node::compute_shift(): the shift of a node, from the height of the path
\* through its first children down to a leaf
RECURSIVE compute_shift(_, _)
compute_shift(h, n) ==
    IF h[n].kind = "leaf" THEN EndShift
    ELSE B + compute_shift(h, h[n].ch[1])

\* the nodes ids are at shift: leaves at EndShift, inner nodes above, and
\* their children one level down
RECURSIVE AtShift(_, _, _)
AtShift(h, ids, shift) ==
    \/ ids = <<>>
    \/ /\ IF shift = EndShift THEN h[Head(ids)].kind = "leaf"
          ELSE /\ h[Head(ids)].kind # "leaf"
               /\ shift >= BL
               /\ AtShift(h, h[Head(ids)].ch, shift - B)
       /\ AtShift(h, Tail(ids), shift)

\* C24: every tree has a shift of at least BL and all the leaves under its
\* root at the depth the shift gives; the tail is a leaf; and a root with
\* children, as take (after collapsing) and concat (after realize) return
\* it, has the shift compute_shift() finds for it
C24_ShiftConsistent ==
    \A r \in Regs :
        /\ t[r].shift >= BL
        /\ (t[r].shift - BL) % B = 0
        /\ AtShift(heap, <<t[r].root>>, t[r].shift)
        /\ heap[t[r].tail].kind = "leaf"
        /\ heap[t[r].root].ch # <<>>
               => t[r].shift = compute_shift(heap, t[r].root)

\* take that collapsed the tree onto a lower node, and concat whose centre
\* came back as one node that became the root
C24_Witness ==
    /\ ~last.failed
    /\ heap[t[2].root].ch # <<>>
    /\ \/ last.op = "take" /\ t[2].shift < last.lshift /\ t[2].shift > BL
       \/ /\ last.op = "concat" /\ last.loff > 0 /\ last.roff > 0
          /\ t[2].shift = last.lshift /\ t[2].shift > BL
          /\ last.rshift = last.lshift

(***************************************************************************)
(* The rebalance plan                                                      *)
(***************************************************************************)
\* counts[0 .. n)
PlanCounts(p) == [k \in 1 .. p.n |-> p.counts[k - 1]]

\* C25: after shuffle the first n counts still sum to total, each is in
\* 1 .. branches, and n <= optimal + 1; a plan that came with
\* n < optimal + 2 is left as it was; and the plan is the one the shuffle
\* inside concat computes
C25_PlanPostcondition ==
    pc = "shuffled" =>
        /\ SumSeq(PlanCounts(plan)) = plan.total
        /\ \A k \in 1 .. plan.n :
               PlanCounts(plan)[k] \in 1 .. shuffle_branches(plan.shift)
        /\ plan.n <= shuffle_optimal(plan.total, plan.shift) + 1
        /\ plan.n0 < shuffle_optimal(plan.total, plan.shift) + 2
               => plan.n = plan.n0 /\ plan.counts = plan.counts0
        /\ shuffle(Plan(plan.counts0, plan.n0, plan.total), plan.shift)
               = Plan(plan.counts, plan.n, plan.total)

\* a full plan of inner counts that shuffle shortened more than once
C25_Witness ==
    /\ pc = "shuffled"
    /\ plan.shift > BL
    /\ plan.n0 = MaxChildren
    /\ plan.loops >= 2
    /\ plan.n = shuffle_optimal(plan.total, plan.shift) + 1

\* C26: in every round of the outer loop the scan stops at a short node at
\* i <= n - 2, the redistribution ends (remaining = 0) having read no
\* further than counts[n - 1], no entry at or beyond n is read or written,
\* and the round takes exactly 1 from n
C26_ShuffleInBounds ==
    /\ pc # "stray"
    /\ pc = "skip" =>
           /\ plan.n >= shuffle_optimal(plan.total, plan.shift) + 2
           /\ \A k \in 1 .. plan.n :
                  PlanCounts(plan)[k] \in 1 .. shuffle_branches(plan.shift)
    /\ pc = "redistribute" => plan.i <= plan.was_n - 2
    /\ pc = "remove" => plan.remaining = 0 /\ plan.i <= plan.was_n - 1
    /\ pc \in {"skip", "redistribute", "remove"} =>
           /\ plan.n = plan.was_n
           /\ plan.n = plan.n0 - (plan.loops - 1)
    /\ pc \in {"shuffle", "shuffled"} => plan.n = plan.n0 - plan.loops
    /\ pc \in {"shuffle", "skip", "redistribute", "remove", "shuffled", "stray"}
           => \A k \in DOMAIN plan.counts :
                  k >= plan.n0 => plan.counts[k] = plan.counts0[k]

\* a later round that skipped full nodes, moved elements through more than
\* one node and ended by reading the last count but one
C26_Witness ==
    /\ pc = "remove"
    /\ plan.loops >= 2
    /\ plan.i = plan.was_n - 2
    /\ plan.i >= 4
    /\ plan.counts[plan.i - 2] # plan.counts0[plan.i - 2]
    /\ plan.counts[0] = shuffle_branches(plan.shift)

(***************************************************************************)
(* The merge step.  The statements b = l + r a state is about to run are   *)
(* followed down concat_inners: every call of concat_rebalance they make   *)
(* is looked at with the nodes it gets, the plan it shuffles and the       *)
(* merger after each source child.                                         *)
(***************************************************************************)
\* the calls of concat_rebalance under concat_inners(h, lpos, rpos), the
\* lowest first; the centre c carries the memory it was built in
RECURSIVE rebalances(_, _, _)
rebalances(h, lpos, rpos) ==
    IF lpos.shift > rpos.shift
    THEN rebalances(h, last_sub(h, lpos), rpos)
         \o <<[l |-> lpos, c |-> concat_inners(h, last_sub(h, lpos), rpos),
               r |-> NullPos]>>
    ELSE IF lpos.shift < rpos.shift
    THEN rebalances(h, lpos, first_sub(h, rpos))
         \o <<[l |-> NullPos, c |-> concat_inners(h, lpos, first_sub(h, rpos)),
               r |-> rpos]>>
    ELSE IF lpos.shift = BL
    THEN <<[l |-> lpos, c |-> concat_leafs(h, last_sub(h, lpos), first_sub(h, rpos)),
            r |-> rpos]>>
    ELSE rebalances(h, last_sub(h, lpos), first_sub(h, rpos))
         \o <<[l |-> lpos,
               c |-> concat_inners(h, last_sub(h, lpos), first_sub(h, rpos)),
               r |-> rpos]>>

\* the calls under rrbtree::concat(l, r): none unless both have a body
rebalances_of(h, l, r, with_tail) ==
    rebalances(NodeInc(with_tail.h, l.tail),
               Pos(with_tail.n, with_tail.shift, l.size),
               Pos(r.root, r.shift, tail_offset(h, r)))

Rebalances(h, l, r) ==
    IF l.size = 0 \/ r.size = 0 \/ tail_offset(h, r) = 0 THEN <<>>
    ELSE rebalances_of(h, l, r,
             push_tail(h, l.root, l.shift, tail_offset(h, l), l.tail,
                       tail_size(h, l)))

\* the operands of the statements b = l + r that can run next
Concats ==
    {lr \in Regs \X Regs : \/ pc = "combine" /\ lr[1] # lr[2]
                           \/ pc = "probe" /\ 2 \in {lr[1], lr[2]}}

\* every call of concat_rebalance the next b = l + r can make
NextRebalances ==
    UNION {SeqRange(Rebalances(heap, t[lr[1]], t[lr[2]])) : lr \in Concats}

\* what the three visits of fill() and of merge() meet, in their order
Sources(k) ==
    each_left_sub(k.c.h, k.l) \o each_sub(k.c) \o each_right_sub(k.c.h, k.r)

Shuffled(k) == shuffle(fill(k.c.h, Sources(k)), k.c.shift)

\* the merger after the source children srcs
Merged(k, srcs) ==
    merge_each(Merger(k.c.h, k.c.shift, Shuffled(k).counts, Shuffled(k).n), srcs)

\* the elements under the nodes ids, in order
RECURSIVE Under(_, _)
Under(h, ids) ==
    IF ids = <<>> THEN <<>>
    ELSE (IF h[Head(ids)].kind = "leaf" THEN h[Head(ids)].data
          ELSE Under(h, h[Head(ids)].ch)) \o Under(h, Tail(ids))

Arity(h, id) == IF h[id].kind = "leaf" THEN Len(h[id].data) ELSE Len(h[id].ch)

SourceNodes(srcs) == EagerSeq([i \in 1 .. Len(srcs) |-> srcs[i].node])

\* the children of the parents in m, in order
Children(m) == Flat([i \in 1 .. Len(m.nodes) |-> m.h[m.nodes[i]].ch])

MergeFollowsPlan(k, pl, m) ==
    /\ m.to = NULL
    /\ m.curr = pl.n
    /\ Len(m.nodes) \in 1 .. 3
    /\ \A i \in 1 .. Len(m.nodes) :
           /\ IsRelaxed(m.h, m.nodes[i])
           /\ Len(m.h[m.nodes[i]].ch) <= Branches(B)
    /\ Len(Children(m)) = pl.n
    /\ \A j \in 1 .. pl.n : Arity(m.h, Children(m)[j]) = pl.counts[j - 1]
    /\ Under(m.h, Children(m)) = Under(k.c.h, SourceNodes(Sources(k)))
    /\ merge(k.c.h, pl, k.l, k.c, k.r).nodes = m.nodes

\* C27: merge consumes the left node's children but the last, the centre's
\* children and the right node's children but the first, in that order, and
\* builds children with the arities counts[0], .., counts[n' - 1] in order under
\* 1 to 3 relaxed parents of at most branches<B> children each; at
\* finish() no partially filled target is pending
C27_MergeFollowsPlan ==
    \A k \in NextRebalances : MergeFollowsPlan(k, Shuffled(k), Merged(k, Sources(k)))

\* a merge whose plan shuffle shortened and whose children need two parents
C27_Witness ==
    \E k \in NextRebalances :
        /\ Shuffled(k).n < Len(Sources(k))
        /\ Len(Merged(k, Sources(k)).nodes) >= 2
        /\ k.c.shift > BL

\* the merger before and after the j-th source child of the call k
MergedBefore(k, j) == Merged(k, SubSeq(Sources(k), 1, j - 1))
MergedAfter(k, j) == Merged(k, SubSeq(Sources(k), 1, j))

\* the source child p went into the result as it is: it is the child added
\* last, it has one reference more, and nothing else changed but the
\* parents, of which there may be one more
Adopted(m0, m1, p) ==
    /\ Children(m1) = Append(Children(m0), p.node)
    /\ m1.to = m0.to
    /\ m1.h[p.node] = [m0.h[p.node] EXCEPT !.rc = @ + 1]
    /\ DOMAIN m1.h \ DOMAIN m0.h \subseteq SeqRange(m1.nodes)
    /\ \A id \in DOMAIN m0.h \ ({p.node} \cup SeqRange(m0.nodes)) :
           m1.h[id] = m0.h[id]

\* the arity of the j-th source child is the count of the plan entry being
\* filled
FitsEntry(k, j) ==
    MergedBefore(k, j).counts[MergedBefore(k, j).curr]
       = SubCount(k.c.h, Sources(k)[j])

\* C28 as stated: every source child whose arity is the count of the plan
\* entry being filled is adopted, whether or not a partially filled target
\* is pending
C28_AdoptsEveryFit ==
    \A k \in NextRebalances : \A j \in 1 .. Len(Sources(k)) :
        FitsEntry(k, j)
           => Adopted(MergedBefore(k, j), MergedAfter(k, j), Sources(k)[j])

\* C28: every source child (leaf or inner) met while no partially filled
\* target is pending and whose arity is the count of the plan entry being
\* filled is adopted by pointer: it becomes the next child of the result
\* with one reference more, and no node is made and no element copied for it
C28_AdoptsWholeFit ==
    \A k \in NextRebalances : \A j \in 1 .. Len(Sources(k)) :
        MergedBefore(k, j).to = NULL /\ FitsEntry(k, j)
           => Adopted(MergedBefore(k, j), MergedAfter(k, j), Sources(k)[j])

\* an inner source child adopted after one that was copied, in a call that
\* also meets a fitting child while a target is pending
C28_Witness ==
    \E k \in NextRebalances :
        /\ k.c.shift > BL
        /\ \E j \in 2 .. Len(Sources(k)) :
               /\ MergedBefore(k, j).to = NULL
               /\ FitsEntry(k, j)
               /\ ~FitsEntry(k, j - 1)
        /\ \E j \in 2 .. Len(Sources(k)) :
               /\ MergedBefore(k, j).to # NULL
               /\ FitsEntry(k, j)

(***************************************************************************)
(* The lookup in relaxed nodes                                             *)
(***************************************************************************)
\* the first child of a relaxed node whose size entry is above index
FirstAbove(sizes, index) ==
    CHOOSE k \in 0 .. Len(sizes) - 1 :
        /\ sizes[k + 1] > index
        /\ \A j \in 1 .. k : sizes[j] <= index

\* the guess the loops of get and array_for start the scan from
StartingGuess(level, index) == AndMask(Shr(index, level), B)

\* the descent of get and array_for from node at level with the local
\* index: at every relaxed node met, the index is below the node's size,
\* every child stores at most 1 << level elements, the guess is at or
\* before the first child whose size entry is above the index, and the
\* scan from the guess stops at that child
RECURSIVE LookupStartsInTime(_, _, _, _)
LookupStartsInTime(h, node, level, index) ==
    \/ level = EndShift
    \/ ~IsRelaxed(h, node)
    \/ /\ index < h[node].sizes[Len(h[node].sizes)]
       /\ \A k \in 1 .. Len(h[node].sizes) :
              h[node].sizes[k] - (IF k > 1 THEN h[node].sizes[k - 1] ELSE 0)
                 <= Pow2(level)
       /\ StartingGuess(level, index) <= FirstAbove(h[node].sizes, index)
       /\ RelaxedScan(h[node].sizes, StartingGuess(level, index), index)
              = FirstAbove(h[node].sizes, index)
       /\ LookupStartsInTime(h,
              h[node].ch[FirstAbove(h[node].sizes, index) + 1], level - B,
              index - (IF FirstAbove(h[node].sizes, index) > 0
                       THEN h[node].sizes[FirstAbove(h[node].sizes, index)]
                       ELSE 0))

\* C29: in every tree, for every index in the body, at every relaxed node
\* the loop of get and array_for visits the starting guess
\* (i >> L) & mask<B> is at or before the first child whose size entry is
\* above the local index, the forward scan selects exactly that child
\* without reading a size entry past the last, and get() returns the
\* element at that index
C29_RelaxedLookupStart ==
    \A r \in Regs : \A i \in 0 .. tail_offset(heap, t[r]) - 1 :
        /\ LookupStartsInTime(heap, t[r].root, t[r].shift, i)
        /\ get(heap, t[r], i) = Under(heap, <<t[r].root>>)[i + 1]

\* a relaxed root above the leaves' parents with a relaxed child, read at
\* an index where the scan moves on from the guess in the root and where
\* it moves on in the child
C29_Witness ==
    /\ t[2].shift > BL
    /\ IsRelaxed(heap, t[2].root)
    /\ \E i \in 0 .. tail_offset(heap, t[2]) - 1 :
           /\ StartingGuess(t[2].shift, i) < FirstAbove(heap[t[2].root].sizes, i)
           /\ IsRelaxed(heap, heap[t[2].root].ch[
                               FirstAbove(heap[t[2].root].sizes, i) + 1])
    /\ \E i \in 0 .. tail_offset(heap, t[2]) - 1 :
           /\ StartingGuess(t[2].shift, i) = FirstAbove(heap[t[2].root].sizes, i)
           /\ StartingGuess(t[2].shift, i) > 0

(***************************************************************************)
(* update under fault injection                                            *)
(***************************************************************************)
\* C30: when fn or a copy of a node or of a leaf fails at any level of
\* update(i, fn), the nodes built so far on the path are deleted and no
\* child of the old tree is released: the failed call leaves both trees and
\* the whole memory as they were, every node with the reference count it
\* had and no node more
C30_UpdateFailureRestores ==
    [][last'.failed /\ last'.op = "update" => heap' = heap /\ t' = t]_vars

\* an update that failed on its way through a root above the leaves'
\* parents whose nodes the other tree shares
C30_Witness ==
    /\ last.failed
    /\ last.op = "update"
    /\ last.arg < last.loff
    /\ last.lshift > BL
    /\ \E id \in DOMAIN heap : heap[id].kind # "leaf" /\ heap[id].rc > 1

====
